---- MODULE Spec2Model ----
(***************************************************************************)
(* A model of the observation core of ETO_JS: ETO_Observable (observable   *)
(* property bags) and ETO_ObservableList (observable lists that forward    *)
(* the changes of their ETO_Observable items).                             *)
(*                                                                         *)
(* All dispatch is synchronous.  The call stack of the program is the      *)
(* variable "stack": a frame is a running notification loop (or a library  *)
(* loop that resumes once a nested loop has ended).  Library code runs     *)
(* inside the action that reaches it; one action step is either a call of  *)
(* the public interface made while nothing is running, or the invocation   *)
(* of one user callback by the innermost running loop.                     *)
(*                                                                         *)
(* Callers use the documented interface: properties are created by the add *)
(* functions, and objects are not sealed.                                  *)
(***************************************************************************)
EXTENDS Integers, Sequences, FiniteSets, TLC

\* ------------------------------------------------------------------ bounds
MaxHandles == 2         \* observers registered by callers in one behaviour
MaxSubscriptions == 2   \* item subscriptions made by the list in one behaviour
MaxLen == 2             \* items in the list
MaxOps == 4             \* calls made on a list and its items in one behaviour
MaxListOps == 3         \* calls made in one behaviour of the list structure actions
MaxUndoOps == 4         \* calls made on the undo system in one behaviour
MaxCmds == 3            \* sub-commands of a composite command
MaxDepth == 3           \* notification passes in progress at once
MaxReentrantOps == 2    \* calls made from outside a callback
MaxQueryOps == 3        \* calls made in one behaviour with list queries

\* ------------------------------------------------------------ value domain
Undefined == "undefined"
Null == "null"
NaN == "NaN"
Values == {Undefined, "v1", "v2", NaN}
ReservedName == "ETO_Observable_Properties"
\* the member that toJSON emits and that the constructor looks for
SentinelName == "ETO_Observable_SerializedData"
Names == {"a", "b"}
\* the property names that the calls on the observable object o1 draw from
NameArgs == {"a", Null, ReservedName}
\* an optional boolean argument: omitted, or false (an explicit true takes
\* the branch of the default)
FlagArgs == {Undefined, "false"}
FilterArgs == {"keepOnV2", "alwaysV1", "notAFunction"}
Objs == {"o1", "o2"}
List == "L"
\* the ETO_UndoRedoSystem, an ETO_Observable with its own observers
UndoRedoSystem == "U"
PlainArray == "A"
Targets == Objs \cup {List, UndoRedoSystem}
\* what a list may hold: the observable objects and one plain value
Items == Objs \cup {"v1"}
\* options.addValidator of the list: none, or a function that returns true
\* for ETO_Observable items only
Validators == {"none", "observablesOnly"}
Digits == <<"0", "1", "2", "3", "4", "5", "6", "7", "8", "9">>

\* A label of the undo system is a string, kept as the sequence of its
\* words, so that String.prototype.replace can be computed on it.
Words == {"Undo", "Redo", "x"}
UndoLabel == <<"Undo">>
RedoLabel == <<"Redo">>

\* A command object.  "set" is an ETO_SetPropertyCmd(object, name, value),
\* "cmds" an ETO_InvertibleCmds(arr), "insert" an ETO_ArrayInsertCmd(array,
\* value, index), "remove" an ETO_ArrayRemoveCmd(array, index), "noInverse" a
\* command of a caller whose exec does nothing and returns null; "abstract"
\* an ETO_InvertibleCmd that does not override exec, "inverseAbstract" a
\* command of a caller whose exec does nothing and returns such an
\* ETO_InvertibleCmd; "null" is the value null where a command is expected
\* and "Error" stands for an exception that exec threw.
Cmd(type, object, name, value, index, arr) ==
    [type |-> type, object |-> object, name |-> name, value |-> value,
     index |-> index, arr |-> arr]
NullCmd == Cmd("null", "none", "none", Undefined, 0, << >>)
NoInverseCmd == Cmd("noInverse", "none", "none", Undefined, 0, << >>)
AbstractCmd == Cmd("abstract", "none", "none", Undefined, 0, << >>)
InverseAbstractCmd == Cmd("inverseAbstract", "none", "none", Undefined, 0, << >>)
Thrown == Cmd("Error", "none", "none", Undefined, 0, << >>)
SetPropertyCmd(object, propertyName, value) ==
    Cmd("set", object, propertyName, value, 0, << >>)
InvertibleCmds(cmdArr) == Cmd("cmds", "none", "none", Undefined, 0, cmdArr)
ArrayInsertCmd(arrayObj, item, insertionIndex) ==
    Cmd("insert", arrayObj, "none", item, insertionIndex, << >>)
ArrayRemoveCmd(arrayObj, index) ==
    Cmd("remove", arrayObj, "none", Undefined, index, << >>)

VARIABLES props, observers, handles, stack, passes, log, lastOp,
          removedHandles, storage, indexProps, addValidator, opCount,
          m_undos, m_redos, undoText, redoText, executed, array, runs

vars == <<props, observers, handles, stack, passes, log, lastOp,
          removedHandles, storage, indexProps, addValidator, opCount,
          m_undos, m_redos, undoText, redoText, executed, array, runs>>

\* a === b of JavaScript on the value domain
StrictEquals(a, b) == a = b /\ a # NaN

\* The filter functions a caller may pass to addPropertyWithSetFilter:
\* filter(proposedValue, currentValue) -> acceptedValue.
ApplyFilter(filter, value, current) ==
    IF filter = "keepOnV2" THEN (IF value = "v2" THEN current ELSE value)
    ELSE "v1"

NoProp ==
    [kind |-> "none", value |-> Undefined, configurable |-> FALSE,
     enumerable |-> FALSE, filter |-> "none"]

NoDetails ==
    [name |-> "none", oldValue |-> Undefined, object |-> Undefined,
     senders |-> << >>, sender |-> "none", listChangeType |-> "none",
     index |-> -1, listItem |-> "none", userData |-> 0]

NoFrame ==
    [k |-> "none", target |-> "none", i |-> 0, det |-> NoDetails, pid |-> 0,
     inCall |-> FALSE, removed |-> << >>, startIndex |-> 0, items |-> << >>,
     op |-> "none", text |-> << >>, cmd |-> NullCmd,
     previousUndoCount |-> 0, previousRedoCount |-> 0]

NoOp ==
    [op |-> "none", target |-> "none", name |-> "none", value |-> Undefined,
     result |-> "none", pre |-> [o \in Objs |-> [n \in Names |-> NoProp]],
     preObservers |-> [t \in Targets |-> << >>], handle |-> 0,
     index |-> -1, preStorage |-> << >>, preIndexProps |-> {},
     returned |-> << >>, preHandles |-> << >>,
     preUndo |-> [m_undos |-> << >>, m_redos |-> << >>, undoText |-> UndoLabel,
                  redoText |-> RedoLabel, executed |-> << >>],
     before |-> [op |-> "none",
                 preUndo |-> [m_undos |-> << >>, m_redos |-> << >>,
                              undoText |-> UndoLabel, redoText |-> RedoLabel,
                              executed |-> << >>]]]

\* What a callback reads from the undo system when it is invoked: the
\* getters undoCount and redoCount return the lengths of the two arrays.
Seen(s) ==
    [undoCount |-> Len(s.m_undos), redoCount |-> Len(s.m_redos),
     undoText |-> s.undoText, redoText |-> s.redoText,
     undoTop |-> IF Len(s.m_undos) = 0 THEN UndoLabel
                 ELSE s.m_undos[Len(s.m_undos)][1],
     redoTop |-> IF Len(s.m_redos) = 0 THEN RedoLabel
                 ELSE s.m_redos[Len(s.m_redos)][1]]

\* The state as one record, so that library functions are operators on it.
State ==
    [props |-> props, observers |-> observers, handles |-> handles,
     stack |-> stack, passes |-> passes, log |-> log, storage |-> storage,
     indexProps |-> indexProps, addValidator |-> addValidator,
     ret |-> "none", arr |-> << >>,
     m_undos |-> m_undos, m_redos |-> m_redos, undoText |-> undoText,
     redoText |-> redoText, executed |-> executed, inv |-> NullCmd,
     array |-> array, runs |-> runs]

Commit(s) ==
    /\ props' = s.props
    /\ observers' = s.observers
    /\ handles' = s.handles
    /\ stack' = s.stack
    /\ passes' = s.passes
    /\ log' = s.log
    /\ storage' = s.storage
    /\ indexProps' = s.indexProps
    /\ addValidator' = s.addValidator
    /\ m_undos' = s.m_undos
    /\ m_redos' = s.m_redos
    /\ undoText' = s.undoText
    /\ redoText' = s.redoText
    /\ executed' = s.executed
    /\ array' = s.array
    /\ runs' = s.runs

\* The frames of the loops over the observers of target t that are running.
ActivePasses(s, t) ==
    {s.stack[x].pid : x \in {y \in 1..Len(s.stack) :
                               s.stack[y].k = "pass" /\ s.stack[y].target = t}}

\* this[propertyName]: undefined when the object has no such property
Get(s, this, propertyName) ==
    IF propertyName \in DOMAIN s.props[this] THEN s.props[this][propertyName].value
    ELSE Undefined

\* ---------------------------------------------------------- observer registry
addChangeObserverAtFront(s, this, callbackFunc, wantsItemChangesToo, item, index) ==
    IF callbackFunc = Null THEN [s EXCEPT !.ret = Null]
    ELSE LET observerHandle == Len(s.handles) + 1 IN
         [s EXCEPT
            !.handles = Append(@, [owner |-> this, cb |-> callbackFunc,
                                   observesItemChanges |-> (wantsItemChangesToo = "true"),
                                   item |-> item, index |-> index]),
            !.observers[this] = <<observerHandle>> \o @,
            !.passes = [p \in DOMAIN @ |->
                          IF p \in ActivePasses(s, this)
                          THEN [@[p] EXCEPT !.added = TRUE] ELSE @[p]],
            !.ret = "handle"]

\* ETO_Observable.prototype.addChangeObserver and ETO_ObservableList.prototype
\* .addChangeObserver: a new frozen handle is pushed on m_observers.  A
\* callbackFunc is a function ("user": code of a caller, "fwd": the list's
\* itemChangeCallback) or null.
addChangeObserver(s, this, callbackFunc, wantsItemChangesToo, item, index) ==
    IF callbackFunc = Null THEN [s EXCEPT !.ret = Null]
    ELSE LET observerHandle == Len(s.handles) + 1 IN
         [s EXCEPT
            !.handles = Append(@, [owner |-> this, cb |-> callbackFunc,
                                   observesItemChanges |-> (wantsItemChangesToo = "true"),
                                   item |-> item, index |-> index]),
            !.observers[this] = Append(@, observerHandle),
            !.passes = [p \in DOMAIN @ |->
                          IF p \in ActivePasses(s, this)
                          THEN [@[p] EXCEPT !.added = TRUE] ELSE @[p]],
            !.ret = "handle"]

\* The first position of observerHandle in the sequence, 0 when it has none.
FirstIndexOf(seq, observerHandle) ==
    IF \E x \in 1..Len(seq) : seq[x] = observerHandle
    THEN CHOOSE x \in 1..Len(seq) :
            /\ seq[x] = observerHandle
            /\ \A y \in 1..(x - 1) : seq[y] # observerHandle
    ELSE 0

RemoveAt(seq, x) == SubSeq(seq, 1, x - 1) \o SubSeq(seq, x + 1, Len(seq))

removeChangeObserverSkipsLast(s, this, observerHandle) ==
    LET x == FirstIndexOf(s.observers[this], observerHandle) IN
    IF x = 0 \/ x = Len(s.observers[this]) THEN [s EXCEPT !.ret = "false"]
    ELSE [s EXCEPT !.observers[this] = RemoveAt(@, x), !.ret = "true"]

\* ETO_Observable.prototype.removeChangeObserver and
\* ETO_ObservableList.prototype.removeChangeObserver (the same loop).
removeChangeObserver(s, this, observerHandle) ==
    LET x == FirstIndexOf(s.observers[this], observerHandle) IN
    IF x = 0 THEN [s EXCEPT !.ret = "false"]
    ELSE [s EXCEPT
            !.observers[this] = RemoveAt(@, x),
            !.passes = [p \in DOMAIN @ |->
                          IF p \in ActivePasses(s, this)
                          THEN [@[p] EXCEPT !.removed = TRUE] ELSE @[p]],
            !.ret = "true"]

\* ------------------------------------------------------------- notification
\* ETO_Observable.prototype.notifyAll up to its loop: the loop is the frame.
notifyAll(s, this, changeDetails) ==
    LET cd1 == IF changeDetails.object \in {Undefined, Null}
               THEN [changeDetails EXCEPT !.object = this] ELSE changeDetails
        cd2 == [cd1 EXCEPT !.senders = Append(@, this)]
        pid == Len(s.passes) + 1
    IN [s EXCEPT
          !.stack = Append(@, [NoFrame EXCEPT !.k = "pass", !.target = this,
                                              !.det = cd2, !.pid = pid]),
          !.passes = Append(@, [target |-> this, det |-> cd2,
                                snap |-> s.observers[this],
                                final |-> << >>, added |-> FALSE,
                                removed |-> FALSE, done |-> FALSE])]

\* The details object that notifyAll builds for the observer with handle h.
ObservableDetails(this, changeDetails, h) ==
    [NoDetails EXCEPT !.sender = this, !.senders = changeDetails.senders,
                      !.object = changeDetails.object,
                      !.name = changeDetails.name,
                      !.oldValue = changeDetails.oldValue, !.userData = h]

notifyObserversKeepsSenders(s, this, changeDetails) ==
    LET pid == Len(s.passes) + 1
    IN [s EXCEPT
          !.stack = Append(@, [NoFrame EXCEPT !.k = "pass", !.target = this,
                                              !.det = changeDetails, !.pid = pid]),
          !.passes = Append(@, [target |-> this, det |-> changeDetails,
                                snap |-> s.observers[this],
                                final |-> << >>, added |-> FALSE,
                                removed |-> FALSE, done |-> FALSE])]

\* ETO_ObservableList.prototype.notifyObservers up to its loop.
notifyObservers(s, this, changeDetails) ==
    LET cd2 == [changeDetails EXCEPT !.senders = Append(@, this)]
        pid == Len(s.passes) + 1
    IN [s EXCEPT
          !.stack = Append(@, [NoFrame EXCEPT !.k = "pass", !.target = this,
                                              !.det = cd2, !.pid = pid]),
          !.passes = Append(@, [target |-> this, det |-> cd2,
                                snap |-> s.observers[this],
                                final |-> << >>, added |-> FALSE,
                                removed |-> FALSE, done |-> FALSE])]

\* The copy of the details that notifyObservers builds for one observer:
\* every member but sender and senders is copied as it is.
ListDetails(this, changeDetails, h) ==
    [changeDetails EXCEPT !.sender = this, !.userData = h]

DetailsFor(s, f, h) ==
    IF f.target = List THEN ListDetails(f.target, f.det, h)
    ELSE ObservableDetails(f.target, f.det, h)

detailsSharedSenders(changeDetails, details) ==
    [changeDetails EXCEPT !.senders = details.senders]

\* The changeDetails of a pass after an observer has written to the details
\* it was called with: the observer got an object of its own with a clone of
\* senders, so nothing it writes reaches changeDetails.
detailsAfterCallback(changeDetails, details) == changeDetails

\* The details a callback of a caller leaves behind when it overwrites
\* every member and pushes an entry onto senders.
callbackWrites(details) ==
    [details EXCEPT !.sender = "none", !.senders = Append(@, "none"),
                    !.object = "none", !.name = "none", !.oldValue = Undefined,
                    !.listItem = "none", !.index = -1, !.userData = 0]

WantsEventAlways(s, f, h) == TRUE

\* notifyObservers skips an observer that did not ask for item changes when
\* the changed object is not the list itself.
WantsEvent(s, f, h) ==
    ~(f.target = List /\ f.det.object # List /\ ~s.handles[h].observesItemChanges)

itemChangeCallbackDropsEvent(s, h, info) == s

\* The itemChangeCallback closures of add and of the index setter: the item
\* and the index are those the closure captured when it was created.
itemChangeCallback(s, h, info) ==
    notifyObservers(s, List, [info EXCEPT !.listItem = s.handles[h].item,
                                          !.index = s.handles[h].index])

\* The loop condition of notifyAll and notifyObservers, negated:
\* i < this.m_observers.length is read from the live array on every round.
LoopEnded(s, f) == f.i >= Len(s.observers[f.target])

DueHandleBackwards(s, f) ==
    s.observers[f.target][Len(s.observers[f.target]) - f.i]

\* this.m_observers[i]
DueHandle(s, f) == s.observers[f.target][f.i + 1]

removeLoopRoundReportsStartIndex(s, f) ==
    LET top == Len(s.stack)
        item == f.removed[f.i + 1]
        s1 == IF item[2] # 0 THEN removeChangeObserver(s, item[1], item[2]) ELSE s
        s2 == [s1 EXCEPT !.stack[top].i = @ + 1, !.ret = s.ret]
    IN notifyObservers(s2, List,
          [NoDetails EXCEPT !.name = Digits[f.startIndex + 1],
                            !.oldValue = item[1], !.object = List,
                            !.listChangeType = "remove",
                            !.index = f.startIndex])

\* One round of the loop at the end of ETO_ObservableList.prototype.remove,
\* for removed[f.i]: the list's observer is taken off the item, then the
\* list's observers are notified of the removal.
removeLoopRound(s, f) ==
    LET top == Len(s.stack)
        item == f.removed[f.i + 1]
        s1 == IF item[2] # 0 THEN removeChangeObserver(s, item[1], item[2]) ELSE s
        s2 == [s1 EXCEPT !.stack[top].i = @ + 1, !.ret = s.ret]
    IN notifyObservers(s2, List,
          [NoDetails EXCEPT !.name = Digits[f.startIndex + f.i + 1],
                            !.oldValue = item[1], !.object = List,
                            !.listChangeType = "remove",
                            !.index = f.i + f.startIndex])

\* ---------------------------------------------------------------- properties
\* Object.defineProperty on an ETO_Observable: the redefinition of a
\* non-configurable property is rejected (TypeError) unless nothing changes;
\* accessor functions are fresh closures, so an accessor never matches.
DefineAllowed(current, desc) ==
    \/ current.kind = "none"
    \/ current.configurable
    \/ (current.kind = "ro" /\ current = desc)

IsRejectedName(propertyName) == propertyName \in {Null, ReservedName}

addPropertyNotifiesNewValue(s, this, propertyName, propertyValue, removable, writable, isEnumerable) ==
    IF IsRejectedName(propertyName) THEN [s EXCEPT !.ret = "false"]
    ELSE IF Get(s, this, propertyName) # Undefined THEN [s EXCEPT !.ret = "false"]
    ELSE
      LET desc == [kind |-> IF writable = "false" THEN "ro" ELSE "plain",
                   value |-> propertyValue,
                   configurable |-> (removable # "false"),
                   enumerable |-> (isEnumerable # "false"), filter |-> "none"]
      IN IF ~DefineAllowed(s.props[this][propertyName], desc)
         THEN [s EXCEPT !.ret = "TypeError"]
         ELSE notifyAll([s EXCEPT !.props[this][propertyName] = desc, !.ret = "true"],
                        this,
                        [NoDetails EXCEPT !.name = propertyName, !.object = this,
                                          !.oldValue = propertyValue])

\* ETO_Observable.prototype.addProperty
addProperty(s, this, propertyName, propertyValue, removable, writable, isEnumerable) ==
    IF IsRejectedName(propertyName) THEN [s EXCEPT !.ret = "false"]
    ELSE IF Get(s, this, propertyName) # Undefined THEN [s EXCEPT !.ret = "false"]
    ELSE
      LET desc == [kind |-> IF writable = "false" THEN "ro" ELSE "plain",
                   value |-> propertyValue,
                   configurable |-> (removable # "false"),
                   enumerable |-> (isEnumerable # "false"), filter |-> "none"]
      IN IF ~DefineAllowed(s.props[this][propertyName], desc)
         THEN [s EXCEPT !.ret = "TypeError"]
         ELSE notifyAll([s EXCEPT !.props[this][propertyName] = desc, !.ret = "true"],
                        this,
                        [NoDetails EXCEPT !.name = propertyName, !.object = this])

\* ETO_Observable.prototype.addROProperty
addROProperty(s, this, propertyName, propertyValue, isEnumerable) ==
    addProperty(s, this, propertyName, propertyValue, "false", "false", isEnumerable)

\* ETO_Observable.prototype.addPropertyWithPrivateSet
addPropertyWithPrivateSet(s, this, propertyName, propertyValue, isEnumerable) ==
    IF IsRejectedName(propertyName) THEN [s EXCEPT !.ret = Null]
    ELSE IF Get(s, this, propertyName) # Undefined THEN [s EXCEPT !.ret = Null]
    ELSE
      LET desc == [kind |-> "private", value |-> propertyValue,
                   configurable |-> FALSE,
                   enumerable |-> (isEnumerable # "false"), filter |-> "none"]
      IN IF ~DefineAllowed(s.props[this][propertyName], desc)
         THEN [s EXCEPT !.ret = "TypeError"]
         ELSE notifyAll([s EXCEPT !.props[this][propertyName] = desc, !.ret = "setFunc"],
                        this,
                        [NoDetails EXCEPT !.name = propertyName, !.object = this])

\* ETO_Observable.prototype.addPropertyWithSetFilter
addPropertyWithSetFilter(s, this, propertyName, propertyValue, setFilterFunc, removable, isEnumerable) ==
    IF IsRejectedName(propertyName) THEN [s EXCEPT !.ret = "false"]
    ELSE IF setFilterFunc = "notAFunction" THEN [s EXCEPT !.ret = "false"]
    ELSE IF Get(s, this, propertyName) # Undefined THEN [s EXCEPT !.ret = "false"]
    ELSE
      LET desc == [kind |-> "filtered", value |-> propertyValue,
                   configurable |-> (removable # "false"),
                   enumerable |-> (isEnumerable # "false"),
                   filter |-> setFilterFunc]
      IN IF ~DefineAllowed(s.props[this][propertyName], desc)
         THEN [s EXCEPT !.ret = "TypeError"]
         ELSE notifyAll([s EXCEPT !.props[this][propertyName] = desc, !.ret = "true"],
                        this,
                        [NoDetails EXCEPT !.name = propertyName, !.object = this])

\* ETO_Observable.prototype.removeProperty
removeProperty(s, this, propertyName) ==
    IF propertyName = Null THEN [s EXCEPT !.ret = "false"]
    ELSE IF Get(s, this, propertyName) = Undefined THEN [s EXCEPT !.ret = "false"]
    ELSE IF s.props[this][propertyName].configurable = FALSE THEN [s EXCEPT !.ret = "false"]
    ELSE notifyAll([s EXCEPT !.props[this][propertyName] = NoProp, !.ret = "true"],
                   this,
                   [NoDetails EXCEPT !.name = propertyName,
                                     !.oldValue = Get(s, this, propertyName)])

plainSetterAlwaysNotifies(s, this, propertyName, value) ==
    notifyAll([s EXCEPT !.props[this][propertyName].value = value],
              this,
              [NoDetails EXCEPT !.name = propertyName,
                                !.oldValue = Get(s, this, propertyName)])

\* The set accessor that addProperty installs for a writable property.
plainSetter(s, this, propertyName, value) ==
    IF StrictEquals(Get(s, this, propertyName), value) THEN s
    ELSE notifyAll([s EXCEPT !.props[this][propertyName].value = value],
                   this,
                   [NoDetails EXCEPT !.name = propertyName,
                                     !.oldValue = Get(s, this, propertyName)])

filterSetterSkipsFilter(s, this, propertyName, value) ==
    plainSetter(s, this, propertyName, value)

\* The set accessor that addPropertyWithSetFilter installs.
filterSetter(s, this, propertyName, value) ==
    plainSetter(s, this, propertyName,
                ApplyFilter(s.props[this][propertyName].filter, value,
                            Get(s, this, propertyName)))

\* The setter function that addPropertyWithPrivateSet returns.
setFunc(s, ownerObj, propertyName, newValue) ==
    IF StrictEquals(Get(s, ownerObj, propertyName), newValue) THEN s
    ELSE notifyAll([s EXCEPT !.props[ownerObj][propertyName].value = newValue],
                   ownerObj,
                   [NoDetails EXCEPT !.name = propertyName,
                                     !.oldValue = Get(s, ownerObj, propertyName)])

assignWritesReadOnly(s, this, propertyName, value) ==
    LET kind == s.props[this][propertyName].kind IN
    IF kind = "filtered" THEN filterSetter(s, this, propertyName, value)
    ELSE plainSetter(s, this, propertyName, value)

\* this[propertyName] = value for a property the object has.  A read-only
\* data property and an accessor without set ignore the assignment (a
\* strict-mode caller gets a TypeError instead; the object is as untouched).
assign(s, this, propertyName, value) ==
    LET kind == s.props[this][propertyName].kind IN
    IF kind = "plain" THEN plainSetter(s, this, propertyName, value)
    ELSE IF kind = "filtered" THEN filterSetter(s, this, propertyName, value)
    ELSE s

\* ---------------------------------------------------------------------- list
InsertAt(seq, index, x) ==
    SubSeq(seq, 1, index) \o <<x>> \o SubSeq(seq, index + 1, Len(seq))

\* this.m_addValidator(item)
Validate(validator, item) ==
    IF validator = "observablesOnly" /\ item \notin Objs THEN "false" ELSE "true"

\* An index argument is omitted, an integer, or something parseInt makes
\* NaN of; ParseInt is parseInt(insertionIndex.toString(), 10) on these.
IndexArgs(len) ==
    {[t |-> "undefined", n |-> 0], [t |-> "NaN", n |-> 0]}
      \cup {[t |-> "int", n |-> x] : x \in (-1)..(len + 1)}

\* ETO_ObservableList.prototype.at
at(s, index) ==
    IF index < 0 \/ index >= Len(s.storage) THEN Undefined
    ELSE s.storage[index + 1][1]

makeNoIndexProperties(ips, from, to) == ips

\* The properties "0", "1", ... that makeIndexProperty defines for the
\* indices from..to-1 (each closure reads m_storage at its own index).
makeIndexProperties(ips, from, to) == ips \cup (from..(to - 1))

\* The get accessor that makeIndexProperty defines for index: it reads
\* storage[index][0] and throws when m_storage has no entry at index.
indexGetter(s, index) ==
    IF index >= Len(s.storage) THEN "TypeError" ELSE s.storage[index + 1][1]

addAtEnd(s, item, insertionIndex) ==
    LET len == Len(s.storage) IN
    IF insertionIndex.t = "NaN" THEN [s EXCEPT !.ret = "false"]
    ELSE IF insertionIndex.t = "int" /\ (insertionIndex.n < 0 \/ insertionIndex.n > len)
    THEN [s EXCEPT !.ret = "false"]
    ELSE IF s.addValidator # "none" /\ Validate(s.addValidator, item) # "true"
    THEN [s EXCEPT !.ret = "false"]
    ELSE
      LET index == IF insertionIndex.t = "undefined" THEN len ELSE insertionIndex.n
          s1 == IF item \in Objs
                THEN addChangeObserver(s, item, "fwd", Undefined, item, index)
                ELSE s
          observerHandle == IF item \in Objs THEN Len(s1.handles) ELSE 0
          s2 == [s1 EXCEPT
                   !.storage = Append(@, <<item, observerHandle>>),
                   !.indexProps = makeIndexProperties(@, index, len + 1),
                   !.ret = "true"]
      IN notifyObservers(s2, List,
            [NoDetails EXCEPT !.listChangeType = "add", !.index = index,
                              !.object = List, !.name = Digits[index + 1]])

addSubscribesBeforeValidation(s, item, insertionIndex) ==
    LET len == Len(s.storage)
        s0 == IF item \in Objs
              THEN addChangeObserver(s, item, "fwd", Undefined, item, len)
              ELSE s
    IN
    IF insertionIndex.t = "NaN" THEN [s0 EXCEPT !.ret = "false"]
    ELSE IF insertionIndex.t = "int" /\ (insertionIndex.n < 0 \/ insertionIndex.n > len)
    THEN [s0 EXCEPT !.ret = "false"]
    ELSE IF s.addValidator # "none" /\ Validate(s.addValidator, item) # "true"
    THEN [s0 EXCEPT !.ret = "false"]
    ELSE
      LET index == IF insertionIndex.t = "undefined" THEN len ELSE insertionIndex.n
          observerHandle == IF item \in Objs THEN Len(s0.handles) ELSE 0
          s2 == [s0 EXCEPT
                   !.storage = InsertAt(@, index, <<item, observerHandle>>),
                   !.indexProps = makeIndexProperties(@, index, len + 1),
                   !.ret = "true"]
      IN notifyObservers(s2, List,
            [NoDetails EXCEPT !.listChangeType = "add", !.index = index,
                              !.object = List, !.name = Digits[index + 1]])

\* ETO_ObservableList.prototype.add (and push, which is the same function)
add(s, item, insertionIndex) ==
    LET len == Len(s.storage) IN
    IF insertionIndex.t = "NaN" THEN [s EXCEPT !.ret = "false"]
    ELSE IF insertionIndex.t = "int" /\ (insertionIndex.n < 0 \/ insertionIndex.n > len)
    THEN [s EXCEPT !.ret = "false"]
    ELSE IF s.addValidator # "none" /\ Validate(s.addValidator, item) # "true"
    THEN [s EXCEPT !.ret = "false"]
    ELSE
      LET index == IF insertionIndex.t = "undefined" THEN len ELSE insertionIndex.n
          s1 == IF item \in Objs
                THEN addChangeObserver(s, item, "fwd", Undefined, item, index)
                ELSE s
          observerHandle == IF item \in Objs THEN Len(s1.handles) ELSE 0
          s2 == [s1 EXCEPT
                   !.storage = InsertAt(@, index, <<item, observerHandle>>),
                   !.indexProps = makeIndexProperties(@, index, len + 1),
                   !.ret = "true"]
      IN notifyObservers(s2, List,
            [NoDetails EXCEPT !.listChangeType = "add", !.index = index,
                              !.object = List, !.name = Digits[index + 1]])

removeTreatsCountAsOne(s, startIndex, count) ==
    LET len == Len(s.storage)
        count1 == IF count.t = "undefined" \/ count.n <= 0 THEN 1 ELSE count.n
    IN
    IF startIndex < 0 \/ startIndex >= len THEN [s EXCEPT !.ret = "0"]
    ELSE
      LET count2 == IF startIndex + count1 > len THEN len - startIndex ELSE count1
          removed == SubSeq(s.storage, startIndex + 1, startIndex + count2)
          rest == SubSeq(s.storage, 1, startIndex)
                    \o SubSeq(s.storage, startIndex + count2 + 1, len)
      IN [s EXCEPT
            !.storage = rest,
            !.indexProps = makeIndexProperties(@ \ (startIndex..(len - 1)),
                                               startIndex, Len(rest)),
            !.stack = Append(@, [NoFrame EXCEPT !.k = "remove", !.target = List,
                                                !.removed = removed,
                                                !.startIndex = startIndex]),
            !.ret = Digits[Len(removed) + 1]]

\* ETO_ObservableList.prototype.remove: count is omitted (t = "undefined")
\* or an integer.  The loop over the removed items is a frame of the stack.
remove(s, startIndex, count) ==
    LET len == Len(s.storage)
        count1 == IF count.t = "undefined" THEN 1 ELSE count.n
    IN
    IF startIndex < 0 \/ startIndex >= len THEN [s EXCEPT !.ret = "0"]
    ELSE IF count1 <= 0 THEN [s EXCEPT !.ret = "0"]
    ELSE
      LET count2 == IF startIndex + count1 > len THEN len - startIndex ELSE count1
          removed == SubSeq(s.storage, startIndex + 1, startIndex + count2)
          rest == SubSeq(s.storage, 1, startIndex)
                    \o SubSeq(s.storage, startIndex + count2 + 1, len)
      IN [s EXCEPT
            !.storage = rest,
            !.indexProps = makeIndexProperties(@ \ (startIndex..(len - 1)),
                                               startIndex, Len(rest)),
            !.stack = Append(@, [NoFrame EXCEPT !.k = "remove", !.target = List,
                                                !.removed = removed,
                                                !.startIndex = startIndex]),
            !.ret = Digits[Len(removed) + 1]]

indexSetterKeepsSubscription(s, index, newItem) ==
    LET item == s.storage[index + 1] IN
    IF item[1] = newItem THEN s
    ELSE
      LET s2 == IF newItem \in Objs
                THEN addChangeObserver(s, newItem, "fwd", Undefined, newItem, index)
                ELSE s
          observerHandle == IF newItem \in Objs THEN Len(s2.handles) ELSE 0
          s3 == [s2 EXCEPT !.storage[index + 1] = <<newItem, observerHandle>>,
                           !.ret = s.ret]
      IN notifyObservers(s3, List,
            [NoDetails EXCEPT !.name = Digits[index + 1], !.object = List,
                              !.listChangeType = "replace", !.index = index,
                              !.oldValue = item[1]])

indexSetterAlwaysReplaces(s, index, newItem) ==
    LET item == s.storage[index + 1] IN
    IF FALSE THEN s
    ELSE
      LET s1 == IF item[2] # 0 THEN removeChangeObserver(s, item[1], item[2]) ELSE s
          s2 == IF newItem \in Objs
                THEN addChangeObserver(s1, newItem, "fwd", Undefined, newItem, index)
                ELSE s1
          observerHandle == IF newItem \in Objs THEN Len(s2.handles) ELSE 0
          s3 == [s2 EXCEPT !.storage[index + 1] = <<newItem, observerHandle>>,
                           !.ret = s.ret]
      IN notifyObservers(s3, List,
            [NoDetails EXCEPT !.name = Digits[index + 1], !.object = List,
                              !.listChangeType = "replace", !.index = index,
                              !.oldValue = item[1]])

indexSetterReportsNewItem(s, index, newItem) ==
    LET item == s.storage[index + 1] IN
    IF item[1] = newItem THEN s
    ELSE
      LET s1 == IF item[2] # 0 THEN removeChangeObserver(s, item[1], item[2]) ELSE s
          s2 == IF newItem \in Objs
                THEN addChangeObserver(s1, newItem, "fwd", Undefined, newItem, index)
                ELSE s1
          observerHandle == IF newItem \in Objs THEN Len(s2.handles) ELSE 0
          s3 == [s2 EXCEPT !.storage[index + 1] = <<newItem, observerHandle>>,
                           !.ret = s.ret]
      IN notifyObservers(s3, List,
            [NoDetails EXCEPT !.name = Digits[index + 1], !.object = List,
                              !.listChangeType = "replace", !.index = index,
                              !.oldValue = newItem])

\* The set accessor that makeIndexProperty(index) defines: this[index] = newItem
indexSetter(s, index, newItem) ==
    LET item == s.storage[index + 1] IN
    IF item[1] = newItem THEN s
    ELSE
      LET s1 == IF item[2] # 0 THEN removeChangeObserver(s, item[1], item[2]) ELSE s
          s2 == IF newItem \in Objs
                THEN addChangeObserver(s1, newItem, "fwd", Undefined, newItem, index)
                ELSE s1
          observerHandle == IF newItem \in Objs THEN Len(s2.handles) ELSE 0
          s3 == [s2 EXCEPT !.storage[index + 1] = <<newItem, observerHandle>>,
                           !.ret = s.ret]
      IN notifyObservers(s3, List,
            [NoDetails EXCEPT !.name = Digits[index + 1], !.object = List,
                              !.listChangeType = "replace", !.index = index,
                              !.oldValue = item[1]])

\* Array.prototype.splice as the comment of ETO_ObservableList.prototype
\* .splice specifies it: the index at which the change starts, the number of
\* elements removed, the array of the removed elements, and the array after
\* the call.
ArraySpliceStart(len, startIndex) ==
    IF startIndex > len THEN len
    ELSE IF startIndex >= 0 THEN startIndex
    ELSE IF -startIndex > len THEN 0
    ELSE len + startIndex

ArraySpliceCount(len, startIndex, deleteCount) ==
    LET rest == len - ArraySpliceStart(len, startIndex) IN
    IF deleteCount.t = "undefined" \/ deleteCount.n > rest THEN rest
    ELSE IF deleteCount.n <= 0 THEN 0
    ELSE deleteCount.n

ArraySpliceRemoved(arr, startIndex, deleteCount) ==
    LET from == ArraySpliceStart(Len(arr), startIndex)
        n == ArraySpliceCount(Len(arr), startIndex, deleteCount)
    IN SubSeq(arr, from + 1, from + n)

ArraySpliceResult(arr, startIndex, deleteCount, items) ==
    LET from == ArraySpliceStart(Len(arr), startIndex)
        n == ArraySpliceCount(Len(arr), startIndex, deleteCount)
    IN SubSeq(arr, 1, from) \o items \o SubSeq(arr, from + n + 1, Len(arr))

spliceIgnoresNegativeStart(s, startIndex, deleteCount, items) ==
    LET len == Len(s.storage)
        startIndex1 == IF startIndex > len THEN len
                       ELSE IF startIndex < 0 THEN 0
                       ELSE startIndex
        deleteCount1 == IF deleteCount.t = "undefined" \/ deleteCount.n > len - startIndex1
                        THEN len - startIndex1 ELSE deleteCount.n
        removedItems == [x \in 1..(len - startIndex1) |-> s.storage[startIndex1 + x][1]]
        s1 == [s EXCEPT !.stack = Append(@, [NoFrame EXCEPT
                                               !.k = "splice", !.target = List,
                                               !.items = items,
                                               !.startIndex = startIndex1])]
        s2 == remove(s1, startIndex1, [t |-> "int", n |-> deleteCount1])
    IN [s2 EXCEPT !.ret = "array", !.arr = removedItems]

\* ETO_ObservableList.prototype.clear
clear(s) ==
    [remove(s, 0, [t |-> "int", n |-> Len(s.storage)]) EXCEPT !.ret = Undefined]

\* ETO_ObservableList.prototype.removeLast
removeLast(s) ==
    IF Len(s.storage) = 0 THEN [s EXCEPT !.ret = "false"]
    ELSE LET s1 == remove(s, Len(s.storage) - 1, [t |-> "undefined", n |-> 0])
         IN [s1 EXCEPT !.ret = IF s1.ret = "1" THEN "true" ELSE "false"]

\* ETO_ObservableList.prototype.forEach: the indices for which the callback
\* is called when it returns the termination token at the indices of stops
\* and changes nothing.  startIndex is omitted (t = "undefined") or an
\* integer.
forEach(s, stops, startIndex) ==
    LET from == IF startIndex.t = "undefined" THEN 0 ELSE startIndex.n
        range == IF from < 0 THEN {} ELSE from..(Len(s.storage) - 1)
    IN {i \in range : \A j \in stops \cap range : i <= j}

\* ETO_ObservableList.prototype.indexOf
indexOf(s, item, startIndex) ==
    LET visited == forEach(s, {i \in 0..(Len(s.storage) - 1) : s.storage[i + 1][1] = item},
                           startIndex)
        found == {i \in visited : s.storage[i + 1][1] = item}
    IN [s EXCEPT !.ret = IF found = {} THEN "-1"
                         ELSE Digits[(CHOOSE i \in found : TRUE) + 1]]

\* ETO_ObservableList.prototype.first; predicate is the set of the items
\* for which the predicate function returns true.
first(s, predicate, startIndex) ==
    LET visited == forEach(s, {i \in 0..(Len(s.storage) - 1) :
                                 s.storage[i + 1][1] \in predicate}, startIndex)
        found == {i \in visited : s.storage[i + 1][1] \in predicate}
    IN [s EXCEPT !.ret = IF found = {} THEN Undefined
                         ELSE s.storage[(CHOOSE i \in found : TRUE) + 1][1]]

\* ETO_ObservableList.prototype.last
last(s, predicate, startIndex) ==
    LET visited == forEach(s, {}, startIndex)
        found == {i \in visited : s.storage[i + 1][1] \in predicate}
    IN [s EXCEPT !.ret = IF found = {} THEN Undefined
                         ELSE s.storage[(CHOOSE i \in found :
                                           \A j \in found : j <= i) + 1][1]]

\* ETO_ObservableList.prototype.every
every(s, predicate) ==
    [s EXCEPT !.ret = IF \A x \in 1..Len(s.storage) : s.storage[x][1] \in predicate
                      THEN "true" ELSE "false"]

\* ETO_ObservableList.prototype.toArray (toJSON returns this.toArray())
toArray(s) ==
    [s EXCEPT !.ret = "array", !.arr = [x \in 1..Len(s.storage) |-> s.storage[x][1]]]

\* ETO_ObservableList.prototype.toString: the strings of the items that it
\* joins with commas, none for the empty string.
toString(s) ==
    [s EXCEPT !.ret = "string",
              !.arr = [x \in 1..Len(s.storage) |->
                         IF s.storage[x][1] \in Objs THEN "[object ETO_Observable]"
                         ELSE s.storage[x][1]]]

\* ETO_ObservableList.prototype.filter from m_storage[i - 1] on: result is
\* the new list, which push (add) makes observe every ETO_Observable item it
\* is given ("fwdResult" is the itemChangeCallback of that list, which has
\* no observers).
RECURSIVE listFilter(_, _, _, _)
listFilter(s, predicate, i, result) ==
    IF i > Len(s.storage) THEN [s EXCEPT !.ret = "list", !.arr = result]
    ELSE LET item == s.storage[i][1] IN
         IF item \notin predicate THEN listFilter(s, predicate, i + 1, result)
         ELSE LET s1 == IF item \in Objs
                        THEN addChangeObserver(s, item, "fwdResult", Undefined,
                                               item, Len(result))
                        ELSE s
              IN listFilter(s1, predicate, i + 1, Append(result, item))

\* ETO_ObservableList.prototype.splice: deleteCount is omitted
\* (t = "undefined") or an integer, items are arguments[2..].  The loop
\* that adds the items runs once remove has returned: it is a frame of the
\* stack below the frame of remove.
splice(s, startIndex, deleteCount, items) ==
    LET len == Len(s.storage)
        startIndex1 == IF startIndex > len THEN len
                       ELSE IF startIndex < -len THEN 0
                       ELSE IF startIndex < 0 THEN len + startIndex
                       ELSE startIndex
        deleteCount1 == IF deleteCount.t = "undefined" \/ deleteCount.n > len - startIndex1
                        THEN len - startIndex1 ELSE deleteCount.n
        removedItems == [x \in 1..(len - startIndex1) |-> s.storage[startIndex1 + x][1]]
        s1 == [s EXCEPT !.stack = Append(@, [NoFrame EXCEPT
                                               !.k = "splice", !.target = List,
                                               !.items = items,
                                               !.startIndex = startIndex1])]
        s2 == remove(s1, startIndex1, [t |-> "int", n |-> deleteCount1])
    IN [s2 EXCEPT !.ret = "array", !.arr = removedItems]

\* One round of the loop at the end of splice, for arguments[f.i + 2].
spliceLoopRound(s, f) ==
    add([s EXCEPT !.stack[Len(s.stack)].i = @ + 1],
        f.items[f.i + 1], [t |-> "int", n |-> f.startIndex + f.i])

\* ----------------------------------------------------------------- commands
RECURSIVE Settle(_)
RECURSIVE exec(_, _)
RECURSIVE execFrom(_, _, _, _)

\* A call that library code makes on an object which has no observers runs
\* to its end inside the caller: r is the state that the called function
\* returned when it was started in Nested(s).
Nested(s) == [s EXCEPT !.stack = << >>]
Returned(s, r) == [Settle(r) EXCEPT !.stack = s.stack]

\* ------------------------------------------------------------ serialization
\* typeof value
typeof(value) ==
    IF value = NaN THEN "number"
    ELSE IF value = Undefined THEN "undefined"
    ELSE "string"

\* The property names in the order of for (var name in this).
NameOrder == <<"a", "b", SentinelName>>

\* ETO_Observable.prototype.toJSON of an object whose m_simpleSerialize is
\* false: the array ETO_Observable_SerializedData, one descriptor for each
\* enumerable property.
toJSON(s, this) ==
    LET Listed(n) == /\ n \in DOMAIN s.props[this]
                     /\ s.props[this][n].kind # "none"
                     /\ s.props[this][n].enumerable
        names == SelectSeq(NameOrder, Listed)
    IN [x \in 1..Len(names) |->
          LET p == s.props[this][names[x]]
          IN [name |-> names[x], value |-> p.value, enumerable |-> p.enumerable,
              writable |-> p.kind # "ro", configurable |-> p.configurable,
              varType |-> typeof(p.value)]]

\* A boolean as an optional argument of addProperty.
FlagArg(b) == IF b THEN "true" ELSE "false"

\* ETO_Observable.prototype.addDeserializedProperty; no constructor function
\* named "undefined" exists on the global object.
addDeserializedProperty(s, this, propDesc) ==
    IF propDesc.varType \in {"string", "boolean", "number"}
    THEN Returned(s, addProperty(Nested(s), this, propDesc.name, propDesc.value,
                                 FlagArg(propDesc.configurable),
                                 FlagArg(propDesc.writable),
                                 FlagArg(propDesc.enumerable)))
    ELSE [s EXCEPT !.ret = "false"]

\* new ETO_Observable(objectToCopy) from the loops of the constructor on:
\* objectToCopy is the result of toJSON (data = TRUE, param the descriptors)
\* or a plain object (param its enumerable members as name and value).
RECURSIVE construct(_, _, _, _)
construct(s, this, objectToCopy, i) ==
    IF i > Len(objectToCopy.param) THEN s
    ELSE LET m == objectToCopy.param[i]
             s1 == IF objectToCopy.data
                   THEN addDeserializedProperty(s, this, m)
                   ELSE Returned(s, addProperty(Nested(s), this, m.name, m.value,
                                                "true", "true", "true"))
         IN construct(s1, this, objectToCopy, i + 1)

\* The loop of ETO_InvertibleCmds.exec with every inverse stored at the
\* index of its command.
execFromKeepsOrder(s, cmdArr, i, inverseArr) ==
    IF i > Len(cmdArr) THEN [s EXCEPT !.inv = InvertibleCmds(inverseArr)]
    ELSE LET s1 == exec(s, cmdArr[i])
         IN execFrom(s1, cmdArr, i + 1, Append(inverseArr, s1.inv))

\* The loop of ETO_InvertibleCmds.exec from cmdArr[i] on (i from 1):
\* inverseArr[cmdArr.length - i - 1] = cmdArr[i].exec()
execFrom(s, cmdArr, i, inverseArr) ==
    IF i > Len(cmdArr) THEN [s EXCEPT !.inv = InvertibleCmds(inverseArr)]
    ELSE LET s1 == exec(s, cmdArr[i])
         IN execFrom(s1, cmdArr, i + 1, <<s1.inv>> \o inverseArr)

\* this.array[index] on a plain Array (PlainArray) or on the list.
arrayAt(s, arrayObj, index) ==
    IF arrayObj = List THEN at(s, index)
    ELSE IF index < 0 \/ index >= Len(s.array) THEN Undefined
    ELSE s.array[index + 1]

\* this.array.splice(index, deleteCount, items...) on a plain Array or on
\* the list.
arraySplice(s, arrayObj, index, deleteCount, items) ==
    IF arrayObj = List
    THEN Returned(s, splice(Nested(s), index, [t |-> "int", n |-> deleteCount], items))
    ELSE [s EXCEPT !.array = ArraySpliceResult(@, index,
                                               [t |-> "int", n |-> deleteCount], items)]

\* cmd.exec(): the state after it, with the command it returned in inv.
exec(s, cmd) ==
    IF cmd.type = "set"
    THEN LET inverse == SetPropertyCmd(cmd.object, cmd.name,
                                       Get(s, cmd.object, cmd.name))
             s1 == Returned(s, assign(Nested(s), cmd.object, cmd.name, cmd.value))
         IN [s1 EXCEPT !.inv = inverse]
    ELSE IF cmd.type = "cmds"
    THEN execFrom(s, cmd.arr, 1, << >>)
    ELSE IF cmd.type = "insert"
    THEN LET s1 == arraySplice(s, cmd.object, cmd.index, 0, <<cmd.value>>)
         IN [s1 EXCEPT !.inv = ArrayRemoveCmd(cmd.object, cmd.index)]
    ELSE IF cmd.type = "remove"
    THEN LET item == arrayAt(s, cmd.object, cmd.index)
             s1 == arraySplice(s, cmd.object, cmd.index, 1, << >>)
         IN [s1 EXCEPT !.inv = ArrayInsertCmd(cmd.object, item, cmd.index)]
    ELSE IF cmd.type = "abstract"
    THEN [s EXCEPT !.inv = Thrown]
    ELSE IF cmd.type = "inverseAbstract"
    THEN [s EXCEPT !.inv = AbstractCmd]
    ELSE [s EXCEPT !.inv = NullCmd]

\* -------------------------------------------------------------- undo system
\* A replace that returns the label as it is.
ReplaceNothing(label, from, to) == label

\* String.prototype.replace(from, to) with two strings: the first
\* occurrence of from is replaced.
Replace(label, from, to) ==
    IF \E k \in 1..Len(label) : label[k] = from
    THEN LET k == CHOOSE k \in 1..Len(label) :
                     label[k] = from /\ \A j \in 1..(k - 1) : label[j] # from
         IN [label EXCEPT ![k] = to]
    ELSE label

\* this.undoText = value, this.redoText = value: both are properties that
\* the constructor added with addProperty(name, text, false, true, true).
setText(s, propertyName, value) ==
    IF s[propertyName] = value THEN s
    ELSE notifyAll([s EXCEPT ![propertyName] = value], UndoRedoSystem,
                   [NoDetails EXCEPT !.name = propertyName,
                                     !.oldValue = s[propertyName]])

\* The label on top of a stack of [text, cmd] pairs, or the default.
TopText(pairs, default) ==
    IF Len(pairs) = 0 THEN default ELSE pairs[Len(pairs)][1]

\* A count notification whose oldValue is always 0.
notifyCountWithoutOldValue(s, name, oldValue) ==
    notifyAll(s, UndoRedoSystem,
              [NoDetails EXCEPT !.name = name, !.oldValue = 0,
                                !.object = UndoRedoSystem])

\* notifyAll({name: "undoCount" / "redoCount", oldValue, object: this})
notifyCount(s, name, oldValue) ==
    notifyAll(s, UndoRedoSystem,
              [NoDetails EXCEPT !.name = name, !.oldValue = oldValue,
                                !.object = UndoRedoSystem])

\* The functions of ETO_UndoRedoSystem notify in several places; each is a
\* frame of the stack that holds its local variables and the number i of
\* the next statement group to run.
UndoFrame(op, text, cmd) ==
    [NoFrame EXCEPT !.k = "undoProc", !.target = UndoRedoSystem, !.op = op,
                    !.text = text, !.cmd = cmd]

\* ETO_UndoRedoSystem.prototype.addUndo: cmdOrArrOfCmds is a command, or an
\* Array of commands (type "array").
addUndo(s, text, cmdOrArrOfCmds) ==
    LET cmd == IF cmdOrArrOfCmds.type = "array"
               THEN InvertibleCmds(cmdOrArrOfCmds.arr) ELSE cmdOrArrOfCmds
    IN [s EXCEPT !.stack = Append(@, UndoFrame("addUndo", text, cmd)),
                 !.ret = "true"]

\* addUndo without the statements of lines 83-85 that empty the redo stack.
addUndoKeepsRedos(s, f) ==
    LET top == Len(s.stack)
        s1 == [s EXCEPT !.stack[top].i = @ + 1]
    IN
    IF f.i = 0
    THEN setText([s1 EXCEPT !.m_undos = Append(@, <<f.text, f.cmd>>)],
                 "undoText", f.text)
    ELSE IF f.i = 2
    THEN notifyCount(s1, "undoCount", Len(s.m_undos) - 1)
    ELSE s1

addUndoStep(s, f) ==
    LET top == Len(s.stack)
        s1 == [s EXCEPT !.stack[top].i = @ + 1]
    IN
    IF f.i = 0
    THEN setText([s1 EXCEPT !.m_undos = Append(@, <<f.text, f.cmd>>)],
                 "undoText", f.text)
    ELSE IF f.i = 1
    THEN setText([s1 EXCEPT !.stack[top].previousRedoCount = Len(s.m_redos),
                            !.m_redos = << >>],
                 "redoText", RedoLabel)
    ELSE IF f.i = 2
    THEN notifyCount(s1, "undoCount", Len(s.m_undos) - 1)
    ELSE IF f.previousRedoCount # 0
    THEN notifyCount(s1, "redoCount", f.previousRedoCount)
    ELSE s1

\* ETO_UndoRedoSystem.prototype.clear
clear_undos(s) ==
    [s EXCEPT !.stack = Append(@, UndoFrame("clear", << >>, NullCmd)),
              !.ret = Undefined]

clearStep(s, f) ==
    LET top == Len(s.stack)
        s1 == [s EXCEPT !.stack[top].i = @ + 1]
    IN
    IF f.i = 0
    THEN setText([s1 EXCEPT !.stack[top].previousUndoCount = Len(s.m_undos),
                            !.stack[top].previousRedoCount = Len(s.m_redos),
                            !.m_undos = << >>, !.m_redos = << >>],
                 "undoText", UndoLabel)
    ELSE IF f.i = 1
    THEN setText(s1, "redoText", RedoLabel)
    ELSE IF f.i = 2
    THEN IF f.previousUndoCount # 0
         THEN notifyCount(s1, "undoCount", f.previousUndoCount) ELSE s1
    ELSE IF f.previousRedoCount # 0
    THEN notifyCount(s1, "redoCount", f.previousRedoCount)
    ELSE s1

\* ETO_UndoRedoSystem.prototype.execUndo
execUndo(s) ==
    IF Len(s.m_undos) = 0 THEN [s EXCEPT !.ret = Undefined]
    ELSE [s EXCEPT !.stack = Append(@, UndoFrame("execUndo", << >>, NullCmd)),
                   !.ret = Undefined]

propagateNothing(s) == s

\* An exception thrown by exec leaves execUndo and execRedo, which have no
\* handler: the function on top of the stack ends where it is and the error
\* reaches its caller (runs keeps it).
propagate(s) ==
    [s EXCEPT !.stack = SubSeq(@, 1, Len(@) - 1),
              !.runs = Append(@, [cmd |-> s.executed[Len(s.executed)],
                                  inv |-> Thrown, props |-> s.props,
                                  array |-> s.array, items |-> << >>])]

execUndoStep(s, f) ==
    LET top == Len(s.stack)
        s1 == [s EXCEPT !.stack[top].i = @ + 1]
    IN
    IF f.i = 0
    THEN LET undoPair == s.m_undos[Len(s.m_undos)]
             s2 == exec([s1 EXCEPT !.m_undos = SubSeq(@, 1, Len(@) - 1),
                                   !.executed = Append(@, undoPair[2])],
                        undoPair[2])
             redoText1 == Replace(undoPair[1], "Undo", "Redo")
         IN IF s2.inv = Thrown THEN propagate(s2)
            ELSE setText([s2 EXCEPT !.m_redos = Append(@, <<redoText1, s2.inv>>)],
                         "redoText", redoText1)
    ELSE IF f.i = 1
    THEN notifyCount(s1, "redoCount", Len(s.m_redos) - 1)
    ELSE IF f.i = 2
    THEN setText(s1, "undoText", TopText(s.m_undos, UndoLabel))
    ELSE notifyCount(s1, "undoCount", Len(s.m_undos) + 1)

\* execRedo that pushes the label of the redo entry as it is.
execRedoKeepsLabel(s, f) ==
    LET top == Len(s.stack)
        s1 == [s EXCEPT !.stack[top].i = @ + 1]
    IN
    IF f.i = 0
    THEN LET redoPair == s.m_redos[Len(s.m_redos)]
             s2 == exec([s1 EXCEPT !.m_redos = SubSeq(@, 1, Len(@) - 1),
                                   !.executed = Append(@, redoPair[2])],
                        redoPair[2])
         IN setText([s2 EXCEPT !.m_undos = Append(@, <<redoPair[1], s2.inv>>)],
                    "undoText", redoPair[1])
    ELSE IF f.i = 1
    THEN notifyCount(s1, "undoCount", Len(s.m_undos) - 1)
    ELSE IF f.i = 2
    THEN setText(s1, "redoText", TopText(s.m_redos, RedoLabel))
    ELSE notifyCount(s1, "redoCount", Len(s.m_redos) + 1)

\* ETO_UndoRedoSystem.prototype.execRedo
execRedo(s) ==
    IF Len(s.m_redos) = 0 THEN [s EXCEPT !.ret = Undefined]
    ELSE [s EXCEPT !.stack = Append(@, UndoFrame("execRedo", << >>, NullCmd)),
                   !.ret = Undefined]

execRedoStep(s, f) ==
    LET top == Len(s.stack)
        s1 == [s EXCEPT !.stack[top].i = @ + 1]
    IN
    IF f.i = 0
    THEN LET redoPair == s.m_redos[Len(s.m_redos)]
             s2 == exec([s1 EXCEPT !.m_redos = SubSeq(@, 1, Len(@) - 1),
                                   !.executed = Append(@, redoPair[2])],
                        redoPair[2])
             undoText1 == Replace(redoPair[1], "Redo", "Undo")
         IN IF s2.inv = Thrown THEN propagate(s2)
            ELSE setText([s2 EXCEPT !.m_undos = Append(@, <<undoText1, s2.inv>>)],
                         "undoText", undoText1)
    ELSE IF f.i = 1
    THEN notifyCount(s1, "undoCount", Len(s.m_undos) - 1)
    ELSE IF f.i = 2
    THEN setText(s1, "redoText", TopText(s.m_redos, RedoLabel))
    ELSE notifyCount(s1, "redoCount", Len(s.m_redos) + 1)

\* execWithUndo without the test of line 232: it records what exec returned.
execWithUndoRecordsNull(s, text, cmd) ==
    LET s1 == exec([s EXCEPT !.executed = Append(@, cmd)], cmd)
    IN addUndo(s1, text, Cmd("array", "none", "none", Undefined, 0, <<s1.inv>>))

\* ETO_UndoRedoSystem.prototype.execWithUndo
execWithUndo(s, text, cmd) ==
    LET s1 == exec([s EXCEPT !.executed = Append(@, cmd)], cmd)
        undoCmd == s1.inv
    IN IF undoCmd.type # "null"
       THEN addUndo(s1, text, Cmd("array", "none", "none", Undefined, 0, <<undoCmd>>))
       ELSE [s1 EXCEPT !.ret = "false"]

\* The next statement group of the function of ETO_UndoRedoSystem whose
\* frame f is on top of the stack.
undoStep(s, f) ==
    IF f.op = "addUndo" THEN addUndoStep(s, f)
    ELSE IF f.op = "clear" THEN clearStep(s, f)
    ELSE IF f.op = "execUndo" THEN execUndoStep(s, f)
    ELSE execRedoStep(s, f)

\* Runs library code until a user callback is due or nothing is running.
Settle(s) ==
    IF s.stack = << >> THEN s
    ELSE
      LET top == Len(s.stack)
          f == s.stack[top]
      IN
      IF f.k = "remove"
      THEN IF f.i < Len(f.removed)
           THEN Settle(removeLoopRound(s, f))
           ELSE Settle([s EXCEPT !.stack = SubSeq(@, 1, top - 1)])
      ELSE IF f.k = "splice"
      THEN IF f.i < Len(f.items)
           THEN Settle(spliceLoopRound(s, f))
           ELSE Settle([s EXCEPT !.stack = SubSeq(@, 1, top - 1)])
      ELSE IF f.k = "undoProc"
      THEN IF f.i < 4
           THEN Settle(undoStep(s, f))
           ELSE Settle([s EXCEPT !.stack = SubSeq(@, 1, top - 1)])
      ELSE IF f.inCall
      THEN Settle([s EXCEPT !.stack[top].inCall = FALSE, !.stack[top].i = @ + 1])
      ELSE IF LoopEnded(s, f)
      THEN Settle([s EXCEPT !.stack = SubSeq(@, 1, top - 1),
                            !.passes[f.pid].done = TRUE,
                            !.passes[f.pid].final = s.observers[f.target]])
      ELSE
        LET h == DueHandle(s, f) IN
        IF ~WantsEvent(s, f, h)
        THEN Settle([s EXCEPT !.stack[top].i = @ + 1])
        ELSE IF s.handles[h].cb = "fwdResult"
        THEN Settle([s EXCEPT !.stack[top].i = @ + 1,
                              !.log = Append(@, [pid |-> f.pid, h |-> h,
                                                 det |-> DetailsFor(s, f, h),
                                                 stale |-> FALSE,
                                                 at |-> Seen(s)])])
        ELSE IF s.handles[h].cb = "fwd"
        THEN Settle(itemChangeCallback(
                      [s EXCEPT !.stack[top].inCall = TRUE,
                                !.stack[top].det =
                                   detailsAfterCallback(@,
                                      [DetailsFor(s, f, h) EXCEPT
                                         !.listItem = s.handles[h].item,
                                         !.index = s.handles[h].index,
                                         !.senders = Append(@, List)]),
                                !.log = Append(@, [pid |-> f.pid, h |-> h,
                                                   det |-> DetailsFor(s, f, h),
                                                   stale |-> FALSE,
                                                   at |-> Seen(s)])],
                      h, DetailsFor(s, f, h)))
        ELSE s

\* ------------------------------------------------------------------- actions
Init ==
    /\ props = [o \in Objs |-> [n \in Names |-> NoProp]]
    /\ observers = [t \in Targets |-> << >>]
    /\ handles = << >>
    /\ stack = << >>
    /\ passes = << >>
    /\ log = << >>
    /\ lastOp = NoOp
    /\ removedHandles = {}
    /\ storage = << >>
    /\ indexProps = {}
    /\ addValidator = "none"
    /\ opCount = 0
    /\ m_undos = << >>
    /\ m_redos = << >>
    /\ undoText = UndoLabel
    /\ redoText = RedoLabel
    /\ executed = << >>
    /\ array = << >>
    /\ runs = << >>

\* A call of the interface from outside any callback: s is the state the
\* library function returned, run on to the first user callback (if any).
Call(op, this, propertyName, value, handle, index, s) ==
    /\ Commit(Settle(s))
    /\ lastOp' = [op |-> op, target |-> this, name |-> propertyName,
                  value |-> value, result |-> s.ret, pre |-> props,
                  preObservers |-> observers, handle |-> handle,
                  index |-> index, preStorage |-> storage,
                  preIndexProps |-> indexProps, returned |-> s.arr,
                  preHandles |-> handles,
                  preUndo |-> [m_undos |-> m_undos, m_redos |-> m_redos,
                               undoText |-> undoText, redoText |-> redoText,
                               executed |-> executed],
                  before |-> IF this = UndoRedoSystem
                             THEN [op |-> lastOp.op, preUndo |-> lastOp.preUndo]
                             ELSE NoOp.before]

Idle == stack = << >>

\* the handles that callers hold, and those that the list holds in m_storage
UserHandles(hs) == {h \in 1..Len(hs) : hs[h].cb = "user"}
Subscriptions(hs) == {h \in 1..Len(hs) : hs[h].cb = "fwd"}

\* The arguments tried with a property name: a rejected name returns before
\* any other argument is read, so one value of each is enough for it.
ValueArgs(n) == IF n \in {Null, ReservedName} THEN {"v1"} ELSE Values
FlagArgsFor(n) == IF n \in {Null, ReservedName} THEN {Undefined} ELSE FlagArgs
FilterArgsFor(n) == IF n \in {Null, ReservedName} THEN {"keepOnV2"} ELSE FilterArgs

\* The history of passes, callbacks and executed commands is kept per call.
Fresh == [State EXCEPT !.passes = << >>, !.log = << >>, !.executed = << >>]

AddProperty(o) ==
    /\ Idle
    /\ \E n \in NameArgs :
       \E v \in ValueArgs(n), removable \in FlagArgsFor(n),
          writable \in FlagArgsFor(n), isEnumerable \in FlagArgsFor(n) :
          Call("addProperty", o, n, v, 0, -1,
               addProperty(Fresh, o, n, v, removable, writable, isEnumerable))
    /\ UNCHANGED removedHandles

AddROProperty(o) ==
    /\ Idle
    /\ \E n \in NameArgs :
       \E v \in ValueArgs(n), isEnumerable \in FlagArgsFor(n) :
          Call("addROProperty", o, n, v, 0, -1,
               addROProperty(Fresh, o, n, v, isEnumerable))
    /\ UNCHANGED removedHandles

AddPropertyWithPrivateSet(o) ==
    /\ Idle
    /\ \E n \in NameArgs :
       \E v \in ValueArgs(n), isEnumerable \in FlagArgsFor(n) :
          Call("addPropertyWithPrivateSet", o, n, v, 0, -1,
               addPropertyWithPrivateSet(Fresh, o, n, v, isEnumerable))
    /\ UNCHANGED removedHandles

AddPropertyWithSetFilter(o) ==
    /\ Idle
    /\ \E n \in NameArgs :
       \E filter \in FilterArgsFor(n) :
       \E v \in (IF filter = "notAFunction" THEN {"v1"} ELSE ValueArgs(n)),
          removable \in (IF filter = "notAFunction" THEN {Undefined} ELSE FlagArgsFor(n)),
          isEnumerable \in (IF filter = "notAFunction" THEN {Undefined} ELSE FlagArgsFor(n)) :
          Call("addPropertyWithSetFilter", o, n, v, 0, -1,
               addPropertyWithSetFilter(Fresh, o, n, v, filter, removable,
                                        isEnumerable))
    /\ UNCHANGED removedHandles

RemoveProperty(o) ==
    /\ Idle
    /\ \E n \in NameArgs :
          Call("removeProperty", o, n, Undefined, 0, -1, removeProperty(Fresh, o, n))
    /\ UNCHANGED removedHandles

\* o[n] = v, for a property that o has
Assign(o) ==
    /\ Idle
    /\ \E n \in Names, v \in Values :
          /\ props[o][n].kind # "none"
          /\ Call("assign", o, n, v, 0, -1, assign(Fresh, o, n, v))
    /\ UNCHANGED removedHandles

\* a call of the setter function that addPropertyWithPrivateSet returned
CallSetFunc(o) ==
    /\ Idle
    /\ \E n \in Names, v \in Values :
          /\ props[o][n].kind = "private"
          /\ Call("setFunc", o, n, v, 0, -1, setFunc(Fresh, o, n, v))
    /\ UNCHANGED removedHandles

AddChangeObserver(t) ==
    /\ Idle
    /\ Cardinality(UserHandles(handles)) < MaxHandles
    /\ \E callbackFunc \in {"user", Null} :
          Call("addChangeObserver", t, "none", Undefined, Len(handles) + 1, -1,
               addChangeObserver(Fresh, t, callbackFunc, Undefined, "none", -1))
    /\ UNCHANGED removedHandles

\* observerHandle 0 stands for null; any handle ever returned may be passed
RemoveChangeObserver(t) ==
    /\ Idle
    /\ \E observerHandle \in {0} \cup UserHandles(handles) :
          LET s == removeChangeObserver(Fresh, t, observerHandle) IN
          /\ Call("removeChangeObserver", t, "none", Undefined, observerHandle, -1, s)
          /\ removedHandles' = IF s.ret = "true"
                               THEN removedHandles \cup {observerHandle}
                               ELSE removedHandles

\* What a user callback may do to the registry that is notifying it; the
\* observers of the undo system only read its properties.
Effects(s, t) ==
    {[e |-> "none", h |-> 0]}
      \cup (IF t = UndoRedoSystem THEN {}
            ELSE {[e |-> "remove", h |-> x] : x \in UserHandles(s.handles)})
      \cup (IF Cardinality(UserHandles(s.handles)) < MaxHandles /\ t # UndoRedoSystem
            THEN {[e |-> "add", h |-> 0]} ELSE {})

\* The innermost running loop invokes the user callback that is due.
Deliver ==
    /\ stack # << >>
    /\ LET top == Len(stack)
           f == stack[top]
           h == DueHandle(State, f)
           s1 == [State EXCEPT
                    !.log = Append(@, [pid |-> f.pid, h |-> h,
                                       det |-> DetailsFor(State, f, h),
                                       stale |-> h \in removedHandles,
                                       at |-> Seen(State)])]
       IN \E e \in Effects(State, f.target) :
            LET s2 == IF e.e = "remove" THEN removeChangeObserver(s1, f.target, e.h)
                      ELSE IF e.e = "add"
                      THEN addChangeObserver(s1, f.target, "user", "true", "none", -1)
                      ELSE s1
                s3 == [s2 EXCEPT !.stack[top].i = @ + 1]
            IN /\ Commit(Settle(s3))
               /\ removedHandles' = IF e.e = "remove" /\ s2.ret = "true"
                                    THEN removedHandles \cup {e.h}
                                    ELSE removedHandles
    /\ UNCHANGED lastOp

\* Every sequence of calls on the observable o1.
Next ==
    /\ \/ AddProperty("o1")
       \/ AddROProperty("o1")
       \/ AddPropertyWithPrivateSet("o1")
       \/ AddPropertyWithSetFilter("o1")
       \/ RemoveProperty("o1")
       \/ Assign("o1")
       \/ CallSetFunc("o1")
       \/ AddChangeObserver("o1")
       \/ RemoveChangeObserver("o1")
       \/ Deliver
    /\ UNCHANGED opCount

Spec == Init /\ [][Next]_vars

\* ------------------------------------------------------------- list actions
\* Two observables built from the plain object {a: "v1"} and an empty list,
\* constructed with or without an addValidator.
InitList ==
    /\ props = [o \in Objs |-> [n \in Names |->
                  IF n = "a"
                  THEN [kind |-> "plain", value |-> "v1", configurable |-> TRUE,
                        enumerable |-> TRUE, filter |-> "none"]
                  ELSE NoProp]]
    /\ observers = [t \in Targets |-> << >>]
    /\ handles = << >>
    /\ stack = << >>
    /\ passes = << >>
    /\ log = << >>
    /\ lastOp = NoOp
    /\ removedHandles = {}
    /\ storage = << >>
    /\ indexProps = {}
    /\ addValidator \in Validators
    /\ opCount = 0
    /\ m_undos = << >>
    /\ m_redos = << >>
    /\ undoText = UndoLabel
    /\ redoText = RedoLabel
    /\ executed = << >>
    /\ array = << >>
    /\ runs = << >>

CanSubscribe(item) ==
    item \in Objs => Cardinality(Subscriptions(handles)) < MaxSubscriptions

ResolvedIndex(insertionIndex) ==
    IF insertionIndex.t = "undefined" THEN Len(storage)
    ELSE IF insertionIndex.t = "NaN" THEN -2
    ELSE insertionIndex.n

\* item.a = v for an observable that may be in the list
AssignItem(o) ==
    /\ Idle
    /\ \E v \in {"v1", "v2"} : Call("assign", o, "a", v, 0, -1, assign(Fresh, o, "a", v))
    /\ UNCHANGED removedHandles

ListAdd ==
    /\ Idle
    /\ Len(storage) < MaxLen
    /\ \E item \in Items, insertionIndex \in IndexArgs(Len(storage)) :
          /\ CanSubscribe(item)
          /\ Call("add", List, insertionIndex.t, item, 0,
                  ResolvedIndex(insertionIndex), add(Fresh, item, insertionIndex))
    /\ UNCHANGED removedHandles

ListRemove ==
    /\ Idle
    /\ \E startIndex \in (-1)..Len(storage),
          count \in {[t |-> "undefined", n |-> 0]}
                      \cup {[t |-> "int", n |-> x] : x \in (-1)..(MaxLen + 1)} :
          Call("remove", List, "none", count, 0, startIndex,
               remove(Fresh, startIndex, count))
    /\ UNCHANGED removedHandles

\* list[index] = newItem for an index that has an accessor
ListSetIndex ==
    /\ Idle
    /\ \E index \in indexProps, newItem \in Items :
          /\ CanSubscribe(newItem)
          /\ Call("setIndex", List, "none", newItem, 0, index,
                  indexSetter(Fresh, index, newItem))
    /\ UNCHANGED removedHandles

ListAddChangeObserver ==
    /\ Idle
    /\ Cardinality(UserHandles(handles)) < MaxHandles
    /\ \E callbackFunc \in {"user", Null}, wantsItemChangesToo \in {Undefined, "true"} :
          Call("addChangeObserver", List, wantsItemChangesToo, Undefined,
               Len(handles) + 1, -1,
               addChangeObserver(Fresh, List, callbackFunc, wantsItemChangesToo,
                                 "none", -1))
    /\ UNCHANGED removedHandles

\* Every sequence of at most MaxOps calls on the list and its items.
NextList ==
    \/ /\ opCount < MaxOps
       /\ opCount' = opCount + 1
       /\ \/ ListAdd
          \/ ListRemove
          \/ ListSetIndex
          \/ ListAddChangeObserver
          \/ RemoveChangeObserver(List)
          \/ \E o \in Objs : AssignItem(o)
          \/ \E o \in Objs : AddChangeObserver(o)
          \/ \E o \in Objs : RemoveChangeObserver(o)
    \/ Deliver /\ UNCHANGED opCount

SpecList == InitList /\ [][NextList]_vars

\* ------------------------------------------------- list structure actions
\* A list without an addValidator on which two observers are registered,
\* the first with wantsItemChangesToo = true, the second without.
InitListOps ==
    /\ props = [o \in Objs |-> [n \in Names |->
                  IF n = "a"
                  THEN [kind |-> "plain", value |-> "v1", configurable |-> TRUE,
                        enumerable |-> TRUE, filter |-> "none"]
                  ELSE NoProp]]
    /\ observers = [t \in Targets |-> IF t = List THEN <<1, 2>> ELSE << >>]
    /\ handles = <<[owner |-> List, cb |-> "user", observesItemChanges |-> TRUE,
                    item |-> "none", index |-> -1],
                   [owner |-> List, cb |-> "user", observesItemChanges |-> FALSE,
                    item |-> "none", index |-> -1]>>
    /\ stack = << >>
    /\ passes = << >>
    /\ log = << >>
    /\ lastOp = NoOp
    /\ removedHandles = {}
    /\ storage = << >>
    /\ indexProps = {}
    /\ addValidator = "none"
    /\ opCount = 0
    /\ m_undos = << >>
    /\ m_redos = << >>
    /\ undoText = UndoLabel
    /\ redoText = RedoLabel
    /\ executed = << >>
    /\ array = << >>
    /\ runs = << >>

ListClear ==
    /\ Idle
    /\ Call("clear", List, "none", Undefined, 0, -1, clear(Fresh))
    /\ UNCHANGED removedHandles

ListRemoveLast ==
    /\ Idle
    /\ Call("removeLast", List, "none", Undefined, 0, -1, removeLast(Fresh))
    /\ UNCHANGED removedHandles

\* The item arguments of splice: none, one item, or two.
SpliceItems == {<< >>} \cup {<<x>> : x \in Items} \cup {<<"o2", "v1">>, <<"v1", "o1">>}

\* splice(startIndex), splice(startIndex, deleteCount, item1, ...): the
\* deleteCount can only be omitted when no item follows it.
ListSplice ==
    /\ Idle
    /\ \E startIndex \in (-(MaxLen + 1))..(MaxLen + 1), items \in SpliceItems,
          deleteCount \in {[t |-> "undefined", n |-> 0]}
                            \cup {[t |-> "int", n |-> x] : x \in (-1)..(MaxLen + 1)} :
          /\ deleteCount.t = "undefined" => items = << >>
          /\ Len(storage) + Len(items) <= MaxLen + 1
          /\ Cardinality(Subscriptions(handles))
                + Cardinality({x \in 1..Len(items) : items[x] \in Objs})
                <= MaxSubscriptions
          /\ Call("splice", List, "none",
                  [deleteCount |-> deleteCount, items |-> items], 0, startIndex,
                  splice(Fresh, startIndex, deleteCount, items))
    /\ UNCHANGED removedHandles

\* Every sequence of at most MaxListOps calls that change the list or an
\* item of it.
NextListOps ==
    \/ /\ opCount < MaxListOps
       /\ opCount' = opCount + 1
       /\ \/ ListAdd
          \/ ListRemove
          \/ ListSetIndex
          \/ ListClear
          \/ ListRemoveLast
          \/ ListSplice
          \/ \E o \in Objs : AssignItem(o)
    \/ Deliver /\ UNCHANGED opCount

SpecListOps == InitListOps /\ [][NextListOps]_vars

\* ------------------------------------------------- actions of the undo system
\* One ETO_UndoRedoSystem with one observer; the commands it stores set the
\* plain property a of o1, which nobody observes.
InitUndo ==
    /\ props = [o \in Objs |-> [n \in Names |->
                  IF n = "a"
                  THEN [kind |-> "plain", value |-> "v1", configurable |-> TRUE,
                        enumerable |-> TRUE, filter |-> "none"]
                  ELSE NoProp]]
    /\ observers = [t \in Targets |-> IF t = UndoRedoSystem THEN <<1>> ELSE << >>]
    /\ handles = <<[owner |-> UndoRedoSystem, cb |-> "user",
                    observesItemChanges |-> FALSE, item |-> "none", index |-> -1]>>
    /\ stack = << >>
    /\ passes = << >>
    /\ log = << >>
    /\ lastOp = NoOp
    /\ removedHandles = {}
    /\ storage = << >>
    /\ indexProps = {}
    /\ addValidator = "none"
    /\ opCount = 0
    /\ m_undos = << >>
    /\ m_redos = << >>
    /\ undoText = UndoLabel
    /\ redoText = RedoLabel
    /\ executed = << >>
    /\ array = << >>
    /\ runs = << >>

\* Labels of undo entries: with the word Undo once, with neither word, with
\* both words.
Labels == {<<"Undo", "x">>, <<"x">>, <<"Redo", "Undo">>}

\* Commands whose exec returns a command, as the entries of the two stacks
\* must be: execUndo and execRedo call exec on what exec returned.
StoredCmds ==
    {SetPropertyCmd("o1", "a", "v2"),
     Cmd("array", "none", "none", Undefined, 0, <<SetPropertyCmd("o1", "a", "v1")>>)}

AddUndo ==
    /\ Idle
    /\ \E text \in Labels, cmd \in StoredCmds :
          Call("addUndo", UndoRedoSystem, "none", [text |-> text, cmd |-> cmd],
               0, -1, addUndo(Fresh, text, cmd))
    /\ UNCHANGED removedHandles

UndoClear ==
    /\ Idle
    /\ Call("clear", UndoRedoSystem, "none", Undefined, 0, -1, clear_undos(Fresh))
    /\ UNCHANGED removedHandles

ExecUndo ==
    /\ Idle
    /\ Call("execUndo", UndoRedoSystem, "none", Undefined, 0, -1, execUndo(Fresh))
    /\ UNCHANGED removedHandles

ExecRedo ==
    /\ Idle
    /\ Call("execRedo", UndoRedoSystem, "none", Undefined, 0, -1, execRedo(Fresh))
    /\ UNCHANGED removedHandles

\* execWithUndo with a command that returns its inverse, and with one whose
\* exec returns null.
ExecWithUndo ==
    /\ Idle
    /\ \E text \in {<<"Undo", "x">>}, cmd \in {SetPropertyCmd("o1", "a", "v2"), NoInverseCmd} :
          Call("execWithUndo", UndoRedoSystem, "none", [text |-> text, cmd |-> cmd],
               0, -1, execWithUndo(Fresh, text, cmd))
    /\ UNCHANGED removedHandles

\* Every sequence of at most MaxUndoOps calls on the undo system.
NextUndo ==
    \/ /\ opCount < MaxUndoOps
       /\ opCount' = opCount + 1
       /\ \/ AddUndo
          \/ UndoClear
          \/ ExecUndo
          \/ ExecRedo
          \/ ExecWithUndo
    \/ Deliver /\ UNCHANGED opCount

SpecUndo == InitUndo /\ [][NextUndo]_vars

\* addUndo of a command whose exec throws, of one whose exec returns a
\* command whose exec throws, or of an ETO_SetPropertyCmd.
AddUndoThrowing ==
    /\ Idle
    /\ \E text \in Labels,
          cmd \in {AbstractCmd, InverseAbstractCmd, SetPropertyCmd("o1", "a", "v2")} :
          Call("addUndo", UndoRedoSystem, "none", [text |-> text, cmd |-> cmd],
               0, -1, addUndo(Fresh, text, cmd))
    /\ UNCHANGED removedHandles

\* Every sequence of at most MaxUndoOps calls of addUndo, execUndo and
\* execRedo with such commands.
NextUndoThrowing ==
    \/ /\ opCount < MaxUndoOps
       /\ opCount' = opCount + 1
       /\ \/ AddUndoThrowing
          \/ ExecUndo
          \/ ExecRedo
    \/ Deliver /\ UNCHANGED opCount

SpecUndoThrowing == InitUndo /\ [][NextUndoThrowing]_vars

\* ---------------------------------------------------- actions of the commands
\* The sequences over S of at most n elements.
SeqsUpTo(S, n) == UNION {[1..k -> S] : k \in 0..n}

\* The contents of an array before a command runs on it.
ArrayContents == SeqsUpTo({"v1", "v2"}, MaxLen)

\* o1 with two plain writable properties, and a plain Array and a list that
\* hold the same items; nobody observes them.
InitCmd ==
    /\ \E va, vb \in {"v1", "v2"} :
         props = [o \in Objs |-> [n \in Names |->
                    [kind |-> "plain",
                     value |-> IF o = "o1" THEN (IF n = "a" THEN va ELSE vb) ELSE "v1",
                     configurable |-> TRUE, enumerable |-> TRUE, filter |-> "none"]]]
    /\ observers = [t \in Targets |-> << >>]
    /\ handles = << >>
    /\ stack = << >>
    /\ passes = << >>
    /\ log = << >>
    /\ lastOp = NoOp
    /\ removedHandles = {}
    /\ \E content \in ArrayContents :
         /\ array = content
         /\ storage = [x \in 1..Len(content) |-> <<content[x], 0>>]
         /\ indexProps = 0..(Len(content) - 1)
    /\ addValidator = "none"
    /\ opCount = 0
    /\ m_undos = << >>
    /\ m_redos = << >>
    /\ undoText = UndoLabel
    /\ redoText = RedoLabel
    /\ executed = << >>
    /\ runs = << >>

\* The commands that are executed first: composites of ETO_SetPropertyCmd on
\* the properties of o1, and array commands with every index from below
\* -length to above length.
SetCmds == {SetPropertyCmd("o1", n, v) : n \in Names, v \in {"v1", "v2"}}
CmdInputs ==
    {InvertibleCmds(cmdArr) : cmdArr \in SeqsUpTo(SetCmds, MaxCmds) \ {<< >>}}
      \cup {ArrayInsertCmd(arrayObj, item, index) :
               arrayObj \in {PlainArray, List}, item \in {"v2", "o2"},
               index \in (-(MaxLen + 1))..(MaxLen + 1)}
      \cup {ArrayRemoveCmd(arrayObj, index) :
               arrayObj \in {PlainArray, List},
               index \in (-(MaxLen + 1))..(MaxLen + 1)}

\* cmd.exec() called by a client; runs keeps the command, what it returned
\* and the contents that it found.
Run(cmd) ==
    LET s1 == exec(Fresh, cmd)
    IN /\ Commit([s1 EXCEPT !.runs = Append(@,
                     [cmd |-> cmd, inv |-> s1.inv, props |-> props,
                      array |-> array,
                      items |-> [x \in 1..Len(storage) |-> storage[x][1]]])])
       /\ UNCHANGED <<lastOp, removedHandles, opCount>>

ExecCmd ==
    /\ runs = << >>
    /\ \E cmd \in CmdInputs : Run(cmd)

\* exec() of the command that the last exec() returned.
ExecReturned ==
    /\ Len(runs) \in 1..2
    /\ Run(runs[Len(runs)].inv)

NextCmd == ExecCmd \/ ExecReturned

SpecCmd == InitCmd /\ [][NextCmd]_vars

\* --------------------------------------------- actions of the serialization
\* What a property of o1 may be when it is serialized: absent, or added by
\* one of the four add functions with a string or a number as its value.
PropConfigs ==
    {NoProp} \cup
    {p \in [kind : {"plain", "ro", "private", "filtered"}, value : {"v1", NaN},
            configurable : BOOLEAN, enumerable : BOOLEAN,
            filter : {"none", "keepOnV2"}] :
        /\ p.kind = "private" => ~p.configurable
        /\ p.filter = "keepOnV2" <=> p.kind = "filtered"}

\* o1 has the properties that its adds gave it; o2 is still to be
\* constructed; nobody observes them.
InitJSON ==
    /\ \E pa, pb \in PropConfigs :
         props = [o \in Objs |-> [n \in {"a", "b", SentinelName} |->
                    IF o = "o1" /\ n = "a" THEN pa
                    ELSE IF o = "o1" /\ n = "b" THEN pb
                    ELSE NoProp]]
    /\ observers = [t \in Targets |-> << >>]
    /\ handles = << >>
    /\ stack = << >>
    /\ passes = << >>
    /\ log = << >>
    /\ lastOp = NoOp
    /\ removedHandles = {}
    /\ storage = << >>
    /\ indexProps = {}
    /\ addValidator = "none"
    /\ opCount = 0
    /\ m_undos = << >>
    /\ m_redos = << >>
    /\ undoText = UndoLabel
    /\ redoText = RedoLabel
    /\ executed = << >>
    /\ array = << >>
    /\ runs = << >>

\* One of the four add functions called on o1 with a name that is free, is
\* taken, or is one of the two special names.
AddNamed ==
    /\ opCount = 0
    /\ opCount' = 1
    /\ \E n \in {"a", SentinelName, ReservedName},
          f \in {"addProperty", "addROProperty", "addPropertyWithPrivateSet",
                 "addPropertyWithSetFilter"} :
          Call(f, "o1", n, "v2", 0, -1,
               IF f = "addProperty"
               THEN addProperty(Fresh, "o1", n, "v2", Undefined, Undefined, Undefined)
               ELSE IF f = "addROProperty"
               THEN addROProperty(Fresh, "o1", n, "v2", Undefined)
               ELSE IF f = "addPropertyWithPrivateSet"
               THEN addPropertyWithPrivateSet(Fresh, "o1", n, "v2", Undefined)
               ELSE addPropertyWithSetFilter(Fresh, "o1", n, "v2", "keepOnV2",
                                             Undefined, Undefined))
    /\ UNCHANGED removedHandles

\* The plain objects that o2 is constructed from: their enumerable members.
PlainObjects ==
    {<<[name |-> n, value |-> "v1"], [name |-> "a", value |-> "v2"]>> :
        n \in {"a", "b", ReservedName}}

\* o2 = new ETO_Observable(o1.toJSON()), o1 not simply serialized, or
\* o2 = new ETO_Observable(plain object).
Construct ==
    /\ opCount < 2
    /\ opCount' = 2
    /\ \E objectToCopy \in {[data |-> TRUE, param |-> toJSON(State, "o1")]}
                            \cup {[data |-> FALSE, param |-> x] : x \in PlainObjects} :
          Call("construct", "o2", "none", objectToCopy, 0, -1,
               construct(Fresh, "o2", objectToCopy, 1))
    /\ UNCHANGED removedHandles

NextJSON == AddNamed \/ Construct

SpecJSON == InitJSON /\ [][NextJSON]_vars

\* ---------------------------------------------------------------------------
\* The query operations of the list.
\* ---------------------------------------------------------------------------

\* One call of a query operation with callbacks that change nothing.
ListQuery ==
    /\ Idle
    /\ \E item \in Items, predicate \in SUBSET Items,
          startIndex \in {[t |-> "undefined", n |-> 0]}
                           \cup {[t |-> "int", n |-> x] : x \in (-1)..MaxLen} :
          \/ /\ item = "v1" /\ predicate = {} /\ startIndex.t = "int"
             /\ Call("at", List, "none", Undefined, 0, startIndex.n,
                     [Fresh EXCEPT !.ret = at(Fresh, startIndex.n)])
          \/ /\ predicate = {}
             /\ Call("indexOf", List, "none", item, 0, startIndex.n,
                     indexOf(Fresh, item, startIndex))
          \/ /\ item = "v1"
             /\ \/ Call("first", List, "none", predicate, 0, startIndex.n,
                        first(Fresh, predicate, startIndex))
                \/ Call("last", List, "none", predicate, 0, startIndex.n,
                        last(Fresh, predicate, startIndex))
                \/ /\ predicate \subseteq {storage[x][1] : x \in 1..Len(storage)}
                   /\ Call("forEach", List, "none",
                           forEach(Fresh, {i \in 0..(Len(storage) - 1) :
                                             storage[i + 1][1] \in predicate},
                                   startIndex),
                           0, startIndex.n, [Fresh EXCEPT !.ret = Undefined])
          \/ /\ item = "v1" /\ startIndex.t = "undefined"
             /\ \/ Call("every", List, "none", predicate, 0, -1,
                        every(Fresh, predicate))
                \/ Call("filter", List, "none", predicate, 0, -1,
                        listFilter(Fresh, predicate, 1, << >>))
          \/ /\ item = "v1" /\ predicate = {} /\ startIndex.t = "undefined"
             /\ \/ Call("toArray", List, "none", Undefined, 0, -1, toArray(Fresh))
                \/ Call("toJSON", List, "none", Undefined, 0, -1, toArray(Fresh))
                \/ Call("toString", List, "none", Undefined, 0, -1, toString(Fresh))
    /\ UNCHANGED removedHandles

\* At most MaxQueryOps calls: additions to the list, assignments to an item
\* and queries.
NextQuery ==
    \/ /\ opCount < MaxQueryOps
       /\ opCount' = opCount + 1
       /\ \/ ListAdd
          \/ \E o \in Objs : AssignItem(o)
          \/ ListQuery
    \/ Deliver /\ UNCHANGED opCount

SpecQuery == InitListOps /\ [][NextQuery]_vars

\* ---------------------------------------------------------------------------
\* Observers that change an item from inside their callback.
\* ---------------------------------------------------------------------------

\* The state after o1.addChangeObserver(A); list.add(o1);
\* o1.addChangeObserver(B); list.add(o2);
\* list.addChangeObserver(C, null, true), where
\* o1 has the properties a and b and o2 the property a.
InitReentrant ==
    /\ props = [o \in Objs |-> [n \in Names |->
                  IF n = "a" \/ o = "o1"
                  THEN [kind |-> "plain", value |-> "v1", configurable |-> TRUE,
                        enumerable |-> TRUE, filter |-> "none"]
                  ELSE NoProp]]
    /\ observers = [t \in Targets |-> IF t = "o1" THEN <<1, 2, 3>>
                                      ELSE IF t = "o2" THEN <<4>>
                                      ELSE IF t = List THEN <<5>> ELSE << >>]
    /\ handles = <<[owner |-> "o1", cb |-> "user", observesItemChanges |-> FALSE,
                    item |-> "none", index |-> -1],
                   [owner |-> "o1", cb |-> "fwd", observesItemChanges |-> FALSE,
                    item |-> "o1", index |-> 0],
                   [owner |-> "o1", cb |-> "user", observesItemChanges |-> FALSE,
                    item |-> "none", index |-> -1],
                   [owner |-> "o2", cb |-> "fwd", observesItemChanges |-> FALSE,
                    item |-> "o2", index |-> 1],
                   [owner |-> List, cb |-> "user", observesItemChanges |-> TRUE,
                    item |-> "none", index |-> -1]>>
    /\ stack = << >>
    /\ passes = << >>
    /\ log = << >>
    /\ lastOp = NoOp
    /\ removedHandles = {}
    /\ storage = <<<<"o1", 2>>, <<"o2", 4>>>>
    /\ indexProps = {0, 1}
    /\ addValidator = "none"
    /\ opCount = 0
    /\ m_undos = << >>
    /\ m_redos = << >>
    /\ undoText = UndoLabel
    /\ redoText = RedoLabel
    /\ executed = << >>
    /\ array = << >>
    /\ runs = << >>

\* One observer callback that writes to the details it received and then
\* returns or assigns "v2" to property a of an item before it returns; the
\* assignment runs its own notifications inside the callback.
DeliverAssign ==
    /\ stack # << >>
    /\ LET top == Len(stack)
           f == stack[top]
           h == DueHandle(State, f)
           s1 == [State EXCEPT
                    !.stack[top].det =
                       detailsAfterCallback(@, callbackWrites(DetailsFor(State, f, h))),
                    !.log = Append(@, [pid |-> f.pid, h |-> h,
                                       det |-> DetailsFor(State, f, h),
                                       stale |-> h \in removedHandles,
                                       at |-> Seen(State)])]
       IN \E o \in Objs \cup {"none"} :
            /\ o # "none" => Len(stack) < MaxDepth
            /\ LET s2 == IF o = "none" THEN s1 ELSE assign(s1, o, "a", "v2")
                   s3 == [s2 EXCEPT !.stack[top].i = @ + 1]
               IN Commit(Settle(s3))
    /\ UNCHANGED <<lastOp, removedHandles>>

\* At most MaxReentrantOps calls from outside a callback: assignments to an
\* item and changes of the list.
NextReentrant ==
    \/ /\ opCount < MaxReentrantOps
       /\ opCount' = opCount + 1
       /\ \/ \E o \in Objs : Assign(o)
          \/ ListRemove
          \/ ListSetIndex
          \/ ListClear
          \/ ListSplice
    \/ DeliverAssign /\ UNCHANGED opCount

SpecReentrant == InitReentrant /\ [][NextReentrant]_vars

\* ------------------------------------------------------------------- claims
\* The handles invoked by pass p, in the order of their invocation.
Invoked(p) ==
    LET OfPass(e) == e.pid = p
        sel == SelectSeq(log, OfPass)
    IN [x \in 1..Len(sel) |-> sel[x].h]

Occurrences(seq, h) == Cardinality({x \in 1..Len(seq) : seq[x] = h})

IsPrefix(a, b) == Len(a) <= Len(b) /\ SubSeq(b, 1, Len(a)) = a

\* The last call made no notification pass and left every property as it was.
NothingHappened == passes = << >> /\ log = << >> /\ props = lastOp.pre

\* The last call made exactly one notification pass, on its target, for
\* property name with the given oldValue, and every observer invoked so far
\* received that name, that oldValue and object = the target.
OnePass(name, oldValue) ==
    /\ Len(passes) = 1
    /\ passes[1].target = lastOp.target
    /\ passes[1].det.name = name
    /\ passes[1].det.oldValue = oldValue
    /\ passes[1].det.object = lastOp.target
    /\ \A x \in 1..Len(log) :
          /\ log[x].pid = 1
          /\ log[x].det.name = name
          /\ log[x].det.oldValue = oldValue
          /\ log[x].det.object = lastOp.target
    /\ (stack = << >> /\ ~passes[1].removed) =>
          \A x \in 1..Len(passes[1].snap) :
              Occurrences(Invoked(1), passes[1].snap[x]) = 1

PreProp == lastOp.pre[lastOp.target][lastOp.name]

Candidate ==
    IF PreProp.kind = "filtered"
    THEN ApplyFilter(PreProp.filter, lastOp.value, PreProp.value)
    ELSE lastOp.value

\* C2: a write (assignment, or a call of the private setter) to a plain,
\* filtered or privately-settable property whose candidate value is strictly
\* equal to the current value changes nothing and invokes no observer.
C2_EqualWriteIsSilent ==
    (/\ \/ lastOp.op = "assign" /\ PreProp.kind \in {"plain", "filtered"}
        \/ lastOp.op = "setFunc" /\ PreProp.kind = "private"
     /\ StrictEquals(Candidate, PreProp.value))
      => NothingHappened

C2_Witness ==
    /\ lastOp.op = "assign" /\ PreProp.kind = "filtered"
    /\ lastOp.value # PreProp.value
    /\ StrictEquals(Candidate, PreProp.value)
    /\ Len(observers[lastOp.target]) = 2

\* C3: addProperty with a name that is already a property of the object
\* (whatever its value, undefined included, and whatever its flags) returns
\* false, throws nothing, leaves the property unchanged and invokes no
\* observer.
C3_AddExistingIsRejected ==
    (lastOp.op = "addProperty" /\ lastOp.name \in Names /\ PreProp.kind # "none")
      => lastOp.result = "false" /\ NothingHappened

\* C4: an ordinary assignment to a read-only or privately-settable property
\* changes nothing and invokes no observer, and the value of a privately-
\* settable property changes only in a call of its setter function.
C4_AssignmentToReadOnlyIsIgnored ==
    /\ (lastOp.op = "assign" /\ PreProp.kind \in {"ro", "private"})
          => NothingHappened
    /\ \A o \in Objs, n \in Names :
          (lastOp.pre[o][n].kind = "private" /\ props[o][n] # lastOp.pre[o][n])
            => (lastOp.op = "setFunc" /\ lastOp.target = o /\ lastOp.name = n)

C4_Witness ==
    /\ lastOp.op = "assign" /\ PreProp.kind = "private"
    /\ lastOp.value # PreProp.value /\ lastOp.value # NaN
    /\ Len(observers[lastOp.target]) > 0

\* C5: assigning v to a filtered property holding c makes its value
\* filter(v, c); exactly one notification pass with oldValue = c is made when
\* filter(v, c) is not strictly equal to c, and none otherwise.
C5_FilteredAssignment ==
    (lastOp.op = "assign" /\ PreProp.kind = "filtered")
      => /\ props[lastOp.target][lastOp.name] =
               [PreProp EXCEPT !.value = ApplyFilter(PreProp.filter, lastOp.value,
                                                     PreProp.value)]
         /\ IF StrictEquals(ApplyFilter(PreProp.filter, lastOp.value, PreProp.value),
                            PreProp.value)
            THEN NothingHappened
            ELSE OnePass(lastOp.name, PreProp.value)

C5_Witness ==
    /\ lastOp.op = "assign" /\ PreProp.kind = "filtered"
    /\ PreProp.filter = "alwaysV1" /\ PreProp.value = "v2" /\ lastOp.value = "v2"
    /\ stack = << >> /\ Len(log) = 1

\* C6: removeProperty(name) returns false, changes nothing and invokes no
\* observer when the property is absent or not removable; otherwise it
\* deletes the property, returns true and makes exactly one notification pass
\* whose oldValue is the removed value.
C6_RemoveProperty ==
    (lastOp.op = "removeProperty" /\ lastOp.name \in Names)
      => IF PreProp.kind = "none" \/ ~PreProp.configurable
         THEN lastOp.result = "false" /\ NothingHappened
         ELSE /\ lastOp.result = "true"
              /\ props[lastOp.target][lastOp.name] = NoProp
              /\ OnePass(lastOp.name, PreProp.value)

\* C8 as claimed: a pass runs over the observers registered when it started;
\* whatever callbacks add or remove, exactly those are invoked, once each.
C8_PassUsesSnapshot ==
    \A p \in 1..Len(passes) : passes[p].done => Invoked(p) = passes[p].snap

\* C8 as amended: a pass reads the live registry; when no observer is removed
\* during the pass, every observer registered at its start is invoked exactly
\* once, in order, followed by every observer registered during the pass.
C8_PassUsesLiveRegistry ==
    \A p \in 1..Len(passes) :
        (passes[p].done /\ ~passes[p].removed)
          => /\ Invoked(p) = passes[p].final
             /\ IsPrefix(passes[p].snap, passes[p].final)
             /\ passes[p].added = (Len(passes[p].final) > Len(passes[p].snap))

C8_Witness ==
    \E p \in 1..Len(passes) :
        /\ passes[p].done /\ ~passes[p].removed /\ passes[p].added
        /\ Len(passes[p].snap) = 1 /\ Len(Invoked(p)) = 2

\* The observers of the registry that pass p read at its start which the
\* event of p is meant for: all of them, but for a list pass that forwards an
\* item change only those registered with wantsItemChangesToo = true.
Eligible(p) ==
    LET Wants(h) == \/ passes[p].target # List
                    \/ passes[p].det.object = List
                    \/ handles[h].observesItemChanges
    IN SelectSeq(passes[p].snap, Wants)

\* C7: in every notification pass of an observable or of a list during which
\* no observer is added or removed, each registered observer (of a list: each
\* observer the event is meant for) is invoked exactly once, in the order of
\* registration.
C7_PassInvokesInRegistrationOrder ==
    \A p \in 1..Len(passes) :
        (passes[p].done /\ ~passes[p].added /\ ~passes[p].removed)
          => Invoked(p) = Eligible(p)

C7_Witness ==
    \E p \in 1..Len(passes), q \in 1..Len(passes) :
        /\ passes[p].done /\ ~passes[p].added /\ ~passes[p].removed
        /\ passes[p].target = List /\ passes[p].det.object = "o1"
        /\ Len(passes[p].snap) = 2 /\ Len(Invoked(p)) = 2
        /\ passes[q].done /\ passes[q].target = "o1" /\ Len(Invoked(q)) = 1

Elements(seq) == {seq[x] : x \in 1..Len(seq)}

Without(seq, h) == LET Other(x) == x # h IN SelectSeq(seq, Other)

\* C9: removeChangeObserver(handle), on an observable or on a list, returns
\* true and removes exactly the registration with that handle when it is
\* registered, keeping the others and their order; otherwise (a second call
\* with the same handle included) it returns false and changes nothing; and
\* no handle is invoked after its removal.
C9_RemoveChangeObserver ==
    /\ lastOp.op = "removeChangeObserver" =>
          /\ IF lastOp.handle \in Elements(lastOp.preObservers[lastOp.target])
             THEN /\ lastOp.result = "true"
                  /\ observers[lastOp.target] =
                        Without(lastOp.preObservers[lastOp.target], lastOp.handle)
             ELSE /\ lastOp.result = "false"
                  /\ observers[lastOp.target] = lastOp.preObservers[lastOp.target]
          /\ \A t \in Targets \ {lastOp.target} :
                observers[t] = lastOp.preObservers[t]
    /\ \A x \in 1..Len(log) : ~log[x].stale
    /\ \A t \in Targets : Elements(observers[t]) \cap removedHandles = {}

C9_Witness ==
    /\ lastOp.op = "removeChangeObserver" /\ lastOp.target = List
    /\ lastOp.handle \in removedHandles /\ lastOp.result = "false"
    /\ Len(observers[List]) = 1

ItemsOf(st) == [x \in 1..Len(st) |-> st[x][1]]

\* C10: add(item, index) of an item the validator accepts, with an integer
\* index in [0, length] or none (= length), returns true, makes the list one
\* longer with item at index, the earlier items in place and the later ones
\* shifted by one, and makes exactly one 'add' notification pass with
\* index = the insertion index, name = its string and object = the list,
\* during which at(index) is item.
C10_AddInsertsAndNotifies ==
    (/\ lastOp.op = "add"
     /\ lastOp.index \in 0..Len(lastOp.preStorage)
     /\ (addValidator = "none" \/ Validate(addValidator, lastOp.value) = "true"))
      => /\ lastOp.result = "true"
         /\ Len(storage) = Len(lastOp.preStorage) + 1
         /\ ItemsOf(storage) =
               InsertAt(ItemsOf(lastOp.preStorage), lastOp.index, lastOp.value)
         /\ at(State, lastOp.index) = lastOp.value
         /\ Len(passes) = 1
         /\ passes[1].target = List
         /\ \A x \in 1..Len(log) :
               /\ log[x].pid = 1
               /\ log[x].det.listChangeType = "add"
               /\ log[x].det.index = lastOp.index
               /\ log[x].det.name = Digits[lastOp.index + 1]
               /\ log[x].det.object = List
         /\ (stack = << >> /\ ~passes[1].removed) =>
               \A x \in 1..Len(passes[1].snap) :
                   Occurrences(Invoked(1), passes[1].snap[x]) = 1

C10_Witness ==
    /\ lastOp.op = "add" /\ lastOp.index = 0 /\ Len(lastOp.preStorage) = 1
    /\ lastOp.value = "o1" /\ lastOp.name = "int"
    /\ stack = << >> /\ Len(log) = 1

\* The passes that the list made to forward the change of an item's property.
ForwardedPasses ==
    {p \in 1..Len(passes) : passes[p].target = List /\ passes[p].det.object # List}

\* C11: a property change of an observable item of the list is forwarded to
\* the list's observers with index = the position that the item occupies in
\* the list at that moment and listItem = that item.
C11_ForwardedIndexIsCurrentPosition ==
    lastOp.op = "assign" =>
       \A p \in ForwardedPasses :
          /\ passes[p].det.listItem = lastOp.target
          /\ at(State, passes[p].det.index) = lastOp.target

\* The positions (from 1) of the list at which the object o is stored.
Positions(o) == {x \in 1..Len(storage) : storage[x][1] = o}

\* How often the forwarded passes have invoked the list observer h.
ForwardedTo(h) ==
    Cardinality({x \in 1..Len(log) : log[x].h = h /\ log[x].pid \in ForwardedPasses})

\* The list observers registered with wantsItemChangesToo = true when the
\* last call was made.
ItemChangeObservers ==
    {h \in Elements(lastOp.preObservers[List]) : handles[h].observesItemChanges}

\* The last call changed a property of an observable that is in the list,
\* and everything it started has run to its end.
ItemChanged ==
    /\ lastOp.op = "assign" /\ stack = << >>
    /\ lastOp.value # PreProp.value
    /\ Positions(lastOp.target) # {}

SubscriptionsOn(o) == {h \in Elements(observers[o]) : handles[h].cb = "fwd"}

\* C13: once a list operation has completed, the list holds as many
\* forwarding subscriptions on an observable as the observable occupies
\* positions of the list (the handles kept in m_storage for them); an item
\* that is no longer in the list has none, and a change of its properties
\* reaches no list observer.
C13_OneSubscriptionPerPosition ==
    stack = << >> =>
       /\ \A o \in Objs :
             /\ SubscriptionsOn(o) = {storage[x][2] : x \in Positions(o)}
             /\ Cardinality(SubscriptionsOn(o)) = Cardinality(Positions(o))
             /\ \A h \in SubscriptionsOn(o) : Occurrences(observers[o], h) = 1
       /\ (lastOp.op = "assign" /\ Positions(lastOp.target) = {}) =>
             \A x \in 1..Len(log) : passes[log[x].pid].target # List

C13_Witness ==
    /\ stack = << >>
    /\ lastOp.op = "assign" /\ lastOp.value # PreProp.value
    /\ Positions(lastOp.target) = {}
    /\ \E h \in Subscriptions(handles) : handles[h].item = lastOp.target
    /\ Len(storage) = 1 /\ storage[1][1] \in Objs

\* The last call left the list as it was (items, index accessors and the
\* observer registries of the list and of every object) and notified nobody.
ListUnchanged ==
    /\ storage = lastOp.preStorage
    /\ indexProps = lastOp.preIndexProps
    /\ observers = lastOp.preObservers
    /\ passes = << >> /\ log = << >> /\ stack = << >>

\* C14: remove(startIndex, count) with startIndex < 0, startIndex >= length
\* or count <= 0 returns 0, changes nothing and notifies nobody; so do
\* clear() and removeLast() on an empty list.
C14_RemoveOutOfRangeIsNoOp ==
    /\ (/\ lastOp.op = "remove"
        /\ \/ lastOp.index < 0
           \/ lastOp.index >= Len(lastOp.preStorage)
           \/ (lastOp.value.t = "int" /\ lastOp.value.n <= 0))
          => lastOp.result = "0" /\ ListUnchanged
    /\ (lastOp.op \in {"clear", "removeLast"} /\ lastOp.preStorage = << >>)
          => ListUnchanged

C14_Witness ==
    /\ lastOp.op = "remove"
    /\ lastOp.index = 0 /\ lastOp.value.t = "int" /\ lastOp.value.n = 0
    /\ Len(lastOp.preStorage) = 2 /\ lastOp.preStorage[1][1] \in Objs

Min(a, b) == IF a < b THEN a ELSE b

\* The count that the last call of remove was made with (1 when omitted).
RemoveCount == IF lastOp.value.t = "undefined" THEN 1 ELSE lastOp.value.n

\* C15: remove(startIndex, count) with 0 <= startIndex < length and
\* count >= 1 removes the k = min(count, length - startIndex) items from
\* startIndex on, returns k, keeps the other items in their order, and makes
\* exactly k 'remove' notification passes, the i-th (from 0) with
\* index = startIndex + i, name = its string, object = the list and
\* oldValue = the item that was at that position.
C15_RemoveRange ==
    (/\ lastOp.op = "remove"
     /\ lastOp.index >= 0 /\ lastOp.index < Len(lastOp.preStorage)
     /\ RemoveCount >= 1)
      => LET len == Len(lastOp.preStorage)
             k == Min(RemoveCount, len - lastOp.index)
         IN /\ lastOp.result = Digits[k + 1]
            /\ storage = SubSeq(lastOp.preStorage, 1, lastOp.index)
                            \o SubSeq(lastOp.preStorage, lastOp.index + k + 1, len)
            /\ Len(passes) <= k
            /\ stack = << >> => Len(passes) = k
            /\ \A p \in 1..Len(passes) :
                  /\ passes[p].target = List
                  /\ passes[p].det.listChangeType = "remove"
                  /\ passes[p].det.object = List
                  /\ passes[p].det.index = lastOp.index + p - 1
                  /\ passes[p].det.name = Digits[lastOp.index + p]
                  /\ passes[p].det.oldValue = lastOp.preStorage[lastOp.index + p][1]
            /\ \A x \in 1..Len(log) : log[x].det.index = passes[log[x].pid].det.index
                                        /\ log[x].det.oldValue = passes[log[x].pid].det.oldValue
            /\ \A x \in 1..(Len(log) - 1) : log[x].pid <= log[x + 1].pid

C15_Witness ==
    /\ lastOp.op = "remove" /\ lastOp.index = 0 /\ RemoveCount = 3
    /\ Len(lastOp.preStorage) = 2
    /\ lastOp.preStorage[1][1] # lastOp.preStorage[2][1]
    /\ stack = << >> /\ Len(passes) = 2 /\ Len(log) = 4

\* C16: whatever startIndex and deleteCount are, splice returns exactly the
\* items it removed from the list, in their order: what
\* Array.prototype.splice returns for the same contents and arguments.
C16_SpliceReturnsRemovedItems ==
    lastOp.op = "splice" =>
       lastOp.returned = ArraySpliceRemoved(ItemsOf(lastOp.preStorage), lastOp.index,
                                            lastOp.value.deleteCount)

\* C17: on a list without an addValidator, the contents of the list after
\* splice(startIndex, deleteCount, items...) are those of an array with the
\* same contents after Array.prototype.splice with the same arguments.
C17_SpliceContentsAsArraySplice ==
    (lastOp.op = "splice" /\ addValidator = "none" /\ stack = << >>)
      => ItemsOf(storage) =
            ArraySpliceResult(ItemsOf(lastOp.preStorage), lastOp.index,
                              lastOp.value.deleteCount, lastOp.value.items)

C17_Witness ==
    /\ lastOp.op = "splice" /\ addValidator = "none" /\ stack = << >>
    /\ Len(lastOp.preStorage) = 2
    /\ lastOp.index = -1
    /\ lastOp.value.deleteCount = [t |-> "int", n |-> 3]
    /\ lastOp.value.items = <<"o2">>
    /\ ItemsOf(storage) = <<"v1", "o2">>

\* The entry [item, observerHandle] that the last call found at its index.
PreEntry == lastOp.preStorage[lastOp.index + 1]

\* C18: assigning to list index i the item that is stored at i notifies
\* nobody and changes neither the list nor the list's subscription on the
\* item (the item's registry still holds the same handle).
C18_SameItemAssignmentIsNoOp ==
    (lastOp.op = "setIndex" /\ PreEntry[1] = lastOp.value)
      => ListUnchanged /\ handles = lastOp.preHandles

C18_Witness ==
    /\ lastOp.op = "setIndex" /\ PreEntry[1] = lastOp.value
    /\ lastOp.value \in Objs
    /\ lastOp.index = 1
    /\ PreEntry[2] \in Elements(observers[lastOp.value])

\* C19: assigning to list index i an item other than the one stored there
\* keeps the length and every other position, stores the new item at i, and
\* makes exactly one 'replace' notification pass with index = i, object =
\* the list and oldValue = the previous item; from the first delivery on the
\* list holds no subscription for position i on the previous item, and
\* holds one on the new item when that is an observable.
C19_IndexReplacement ==
    (lastOp.op = "setIndex" /\ PreEntry[1] # lastOp.value)
      => LET x == lastOp.index + 1 IN
         /\ Len(storage) = Len(lastOp.preStorage)
         /\ \A y \in 1..Len(storage) : y # x => storage[y] = lastOp.preStorage[y]
         /\ storage[x][1] = lastOp.value
         /\ Len(passes) = 1
         /\ passes[1].target = List
         /\ \A z \in 1..Len(log) :
               /\ log[z].pid = 1
               /\ log[z].det.listChangeType = "replace"
               /\ log[z].det.index = lastOp.index
               /\ log[z].det.name = Digits[x]
               /\ log[z].det.object = List
               /\ log[z].det.oldValue = PreEntry[1]
         /\ (stack = << >> /\ ~passes[1].removed) =>
               \A z \in 1..Len(passes[1].snap) :
                   Occurrences(Invoked(1), passes[1].snap[z]) = 1
         /\ PreEntry[2] # 0 => PreEntry[2] \notin Elements(observers[PreEntry[1]])
         /\ IF lastOp.value \in Objs
            THEN /\ storage[x][2] \in Elements(observers[lastOp.value])
                 /\ storage[x][2] \notin Elements(lastOp.preObservers[lastOp.value])
                 /\ handles[storage[x][2]].cb = "fwd"
                 /\ handles[storage[x][2]].item = lastOp.value
            ELSE storage[x][2] = 0

C19_Witness ==
    /\ lastOp.op = "setIndex" /\ PreEntry[1] = "o1" /\ lastOp.value = "o2"
    /\ Len(storage) = 1 /\ lastOp.index = 0
    /\ stack # << >> /\ Len(log) = 1

\* C20: a list observer registered without wantsItemChangesToo = true is
\* invoked only for the events of the list itself (add, remove, replace),
\* never for the forwarded change of an item's property; one registered
\* with wantsItemChangesToo = true is invoked for both.
C20_ItemChangesOnlyOnRequest ==
    /\ \A x \in 1..Len(log) :
          (passes[log[x].pid].target = List /\ ~handles[log[x].h].observesItemChanges)
            => /\ log[x].det.object = List
               /\ log[x].det.listChangeType \in {"add", "remove", "replace"}
    /\ \A p \in 1..Len(passes) :
          (passes[p].target = List /\ passes[p].done /\ ~passes[p].removed)
            => \A h \in Elements(passes[p].snap) :
                  h \in Elements(Invoked(p))
                    <=> (handles[h].observesItemChanges \/ passes[p].det.object = List)

C20_Witness ==
    \E p \in ForwardedPasses :
       /\ passes[p].done /\ ~passes[p].removed
       /\ Len(passes[p].snap) = 2
       /\ Len(Invoked(p)) = 1
       /\ handles[Invoked(p)[1]].observesItemChanges

\* C21: a list constructed with an add-validator never holds an item that
\* the validator rejects.
C21_EveryItemWasValidated ==
    addValidator # "none" =>
       \A x \in 1..Len(storage) : Validate(addValidator, storage[x][1]) = "true"

StoredCmd(cmdOrArrOfCmds) ==
    IF cmdOrArrOfCmds.type = "array" THEN InvertibleCmds(cmdOrArrOfCmds.arr)
    ELSE cmdOrArrOfCmds

\* A call of op on the undo system has returned.
UndoReturned(op) == Idle /\ lastOp.target = UndoRedoSystem /\ lastOp.op = op

\* C23: after addUndo(label, cmd) returns, from any state of the two stacks,
\* the redo stack is empty and redoText is "Redo", the undo stack is the
\* previous undo stack with the one entry (label, cmd) pushed on top, and
\* undoText is label.
C23_AddUndoPushesAndClearsRedo ==
    UndoReturned("addUndo") =>
        /\ m_redos = << >>
        /\ redoText = RedoLabel
        /\ m_undos = Append(lastOp.preUndo.m_undos,
                            <<lastOp.value.text, StoredCmd(lastOp.value.cmd)>>)
        /\ Len(m_undos) = Len(lastOp.preUndo.m_undos) + 1
        /\ undoText = lastOp.value.text
        /\ lastOp.result = "true"

\* addUndo has returned after a call made with both stacks non-empty.
C23_Witness ==
    /\ UndoReturned("addUndo")
    /\ Len(lastOp.preUndo.m_undos) > 0
    /\ Len(lastOp.preUndo.m_redos) > 0

\* The label with its first word from, if it has one, exchanged for to.
RECURSIVE Swapped(_, _, _)
Swapped(label, from, to) ==
    IF label = << >> THEN << >>
    ELSE IF Head(label) = from THEN <<to>> \o Tail(label)
    ELSE <<Head(label)>> \o Swapped(Tail(label), from, to)

\* The command that cmd.exec() returns when it runs with the properties
\* that the last call found.
InverseBefore(cmd) ==
    exec([State EXCEPT !.props = lastOp.pre, !.stack = << >>,
                       !.passes = << >>, !.log = << >>], cmd).inv

\* The undo system after the last call is as it was before the call, no
\* command ran and no observer was invoked.
UndoSystemUntouched ==
    /\ m_undos = lastOp.preUndo.m_undos
    /\ m_redos = lastOp.preUndo.m_redos
    /\ undoText = lastOp.preUndo.undoText
    /\ redoText = lastOp.preUndo.redoText
    /\ log = << >>
    /\ passes = << >>

\* C24: execUndo with a non-empty undo stack executes the top undo command
\* once, removes that entry alone and pushes one entry (label with Undo
\* replaced by Redo, inverse returned by exec) onto the redo stack;
\* redoText is the swapped label and undoText the label of the new undo top
\* or "Undo"; execRedo does the same with stacks and words exchanged; with an
\* empty source stack either call executes nothing, changes nothing and
\* notifies nobody.
C24_ExecMovesOneEntry ==
    /\ UndoReturned("execUndo") =>
         LET pre == lastOp.preUndo
             n == Len(pre.m_undos)
         IN IF n = 0
            THEN UndoSystemUntouched /\ executed = << >> /\ props = lastOp.pre
            ELSE /\ executed = <<pre.m_undos[n][2]>>
                 /\ m_undos = SubSeq(pre.m_undos, 1, n - 1)
                 /\ m_redos = Append(pre.m_redos,
                                     <<Swapped(pre.m_undos[n][1], "Undo", "Redo"),
                                       InverseBefore(pre.m_undos[n][2])>>)
                 /\ Len(m_undos) + Len(m_redos) = n + Len(pre.m_redos)
                 /\ redoText = Swapped(pre.m_undos[n][1], "Undo", "Redo")
                 /\ undoText = IF n = 1 THEN UndoLabel ELSE pre.m_undos[n - 1][1]
    /\ UndoReturned("execRedo") =>
         LET pre == lastOp.preUndo
             n == Len(pre.m_redos)
         IN IF n = 0
            THEN UndoSystemUntouched /\ executed = << >> /\ props = lastOp.pre
            ELSE /\ executed = <<pre.m_redos[n][2]>>
                 /\ m_redos = SubSeq(pre.m_redos, 1, n - 1)
                 /\ m_undos = Append(pre.m_undos,
                                     <<Swapped(pre.m_redos[n][1], "Redo", "Undo"),
                                       InverseBefore(pre.m_redos[n][2])>>)
                 /\ Len(m_undos) + Len(m_redos) = n + Len(pre.m_undos)
                 /\ undoText = Swapped(pre.m_redos[n][1], "Redo", "Undo")
                 /\ redoText = IF n = 1 THEN RedoLabel ELSE pre.m_redos[n - 1][1]

\* execUndo has returned after it moved the upper of two undo entries, whose
\* label has the word Undo, to the redo stack.
C24_Witness ==
    /\ UndoReturned("execUndo")
    /\ Len(lastOp.preUndo.m_undos) = 2
    /\ redoText # lastOp.preUndo.undoText
    /\ Len(executed) = 1


\* The positions of word in label.
WordPositions(label, word) == {k \in 1..Len(label) : label[k] = word}

\* execRedo has returned and the call before it was an execUndo that found
\* an undo entry.
UndoneThenRedone ==
    /\ UndoReturned("execRedo")
    /\ lastOp.before.op = "execUndo"
    /\ Len(lastOp.before.preUndo.m_undos) > 0

\* The label of the entry that the execUndo before the last call moved.
RoundTripLabel ==
    lastOp.before.preUndo.m_undos[Len(lastOp.before.preUndo.m_undos)][1]

\* The counts and labels are what they were before the execUndo.
RoundTripRestored ==
    LET was == lastOp.before.preUndo
    IN /\ Len(m_undos) = Len(was.m_undos)
       /\ Len(m_redos) = Len(was.m_redos)
       /\ undoText = was.undoText
       /\ redoText = was.redoText

\* C25 as stated: execUndo followed by execRedo restores undoCount,
\* redoCount, undoText and redoText for every stored label that has the
\* word Undo exactly once and for every label that has neither word.
C25_RoundTripRestoresLabels ==
    (/\ UndoneThenRedone
     /\ \/ Cardinality(WordPositions(RoundTripLabel, "Undo")) = 1
        \/ WordPositions(RoundTripLabel, "Undo") \cup WordPositions(RoundTripLabel, "Redo") = {})
      => RoundTripRestored

\* C25 amended: the round trip restores the four properties for every
\* stored label that has no word Redo before its first word Undo, and for
\* every label that has neither word.
C25_RoundTripRestoresConventionalLabels ==
    (/\ UndoneThenRedone
     /\ \/ \E k \in WordPositions(RoundTripLabel, "Undo") :
              \A j \in WordPositions(RoundTripLabel, "Redo") : k < j
        \/ WordPositions(RoundTripLabel, "Undo") \cup WordPositions(RoundTripLabel, "Redo") = {})
      => RoundTripRestored

\* An entry labelled with the word Undo first was undone and redone while
\* another entry stayed below it.
C25_Witness ==
    /\ UndoneThenRedone
    /\ 1 \in WordPositions(RoundTripLabel, "Undo")
    /\ Len(m_undos) = 2

\* What is read from the undo system agrees with its stacks: the counts are
\* the depths by their getters, and each text is the label of the top entry
\* of its stack or the default.
AgreesWithStacks(seen) ==
    /\ seen.undoText = seen.undoTop
    /\ seen.redoText = seen.redoTop

\* C26: whenever an observer of the undo system is invoked during addUndo,
\* execUndo, execRedo or clear, and after each of those calls returns,
\* undoCount, redoCount, undoText and redoText agree with the stacks.
C26_PropertiesAgreeWithStacks ==
    lastOp.op \in {"addUndo", "execUndo", "execRedo", "clear"}
      /\ lastOp.target = UndoRedoSystem
      => /\ \A x \in 1..Len(log) : AgreesWithStacks(log[x].at)
         /\ Idle => AgreesWithStacks(Seen(State))

\* The notifications about property name that the observers received during
\* the last call.
Received(name) == SelectSeq(log, LAMBDA e : e.det.name = name)

\* During the last call the observers were notified about name once, with
\* oldValue was, when the value changed, and not at all when it did not.
NotifiedIffChanged(name, was, now) ==
    IF was = now THEN Received(name) = << >>
    ELSE /\ Len(Received(name)) = 1
         /\ Received(name)[1].det.oldValue = was

\* C27: for addUndo, execUndo, execRedo and clear the observers receive an
\* undoCount notification if and only if the call changed the undo depth
\* and a redoCount notification if and only if it changed the redo depth,
\* each at most once and with oldValue the depth before the call; undoText
\* and redoText notifications occur exactly when the label value changed.
C27_NotifiedExactlyWhenChanged ==
    (\E op \in {"addUndo", "execUndo", "execRedo", "clear"} : UndoReturned(op))
      => /\ NotifiedIffChanged("undoCount", Len(lastOp.preUndo.m_undos), Len(m_undos))
         /\ NotifiedIffChanged("redoCount", Len(lastOp.preUndo.m_redos), Len(m_redos))
         /\ NotifiedIffChanged("undoText", lastOp.preUndo.undoText, undoText)
         /\ NotifiedIffChanged("redoText", lastOp.preUndo.redoText, redoText)

\* clear has returned after it emptied both stacks and notified the
\* observer of the four changes.
C27_Witness ==
    /\ UndoReturned("clear")
    /\ Len(lastOp.preUndo.m_undos) > 0
    /\ Len(lastOp.preUndo.m_redos) > 0
    /\ Len(log) = 4

\* C28: execWithUndo(label, command) executes command once; when exec
\* returns a command it returns true and the stacks are as after addUndo of
\* that inverse (one entry pushed on undo, redo cleared, undoText the
\* label); when exec returns null it returns false, the stacks and the four
\* properties are unchanged and no observer is invoked.
C28_ExecWithUndoRecordsInverse ==
    UndoReturned("execWithUndo") =>
        /\ executed = <<lastOp.value.cmd>>
        /\ IF InverseBefore(lastOp.value.cmd).type # "null"
           THEN /\ lastOp.result = "true"
                /\ m_undos = Append(lastOp.preUndo.m_undos,
                                    <<lastOp.value.text,
                                      InvertibleCmds(<<InverseBefore(lastOp.value.cmd)>>)>>)
                /\ m_redos = << >>
                /\ undoText = lastOp.value.text
                /\ redoText = RedoLabel
           ELSE /\ lastOp.result = "false"
                /\ UndoSystemUntouched

\* execWithUndo has returned false and kept the entries of both stacks.
C28_Witness ==
    /\ UndoReturned("execWithUndo")
    /\ lastOp.result = "false"
    /\ Len(m_redos) > 0
    /\ Len(m_undos) > 0

\* ----------------------------------------------------------------- commands
\* The value that the property of sub-command k of cmdArr has when that
\* sub-command starts, if the composite started with the properties before.
RECURSIVE ValueBefore(_, _, _)
ValueBefore(cmdArr, k, before) ==
    LET SameProperty(j) == /\ cmdArr[j].object = cmdArr[k].object
                           /\ cmdArr[j].name = cmdArr[k].name
    IN IF \E j \in 1..(k - 1) : SameProperty(j)
       THEN cmdArr[CHOOSE j \in 1..(k - 1) :
                     SameProperty(j) /\ \A i \in (j + 1)..(k - 1) : ~SameProperty(i)].value
       ELSE before[cmdArr[k].object][cmdArr[k].name].value

\* The first command that ran was a composite.
CompositeRan == Len(runs) >= 1 /\ runs[1].cmd.type = "cmds"

\* C29: a composite runs its sub-commands in sequence order and returns a
\* composite that runs the inverses they returned in the reverse order; for
\* every sequence of ETO_SetPropertyCmd on plain writable properties the
\* returned composite restores every property, and what that one returns
\* re-applies the forward effect.
C29_CompositeRoundTrip ==
    CompositeRan =>
        LET cmdArr == runs[1].cmd.arr
            n == Len(cmdArr)
        IN /\ runs[1].inv.type = "cmds"
           /\ Len(runs[1].inv.arr) = n
           /\ \A k \in 1..n :
                 runs[1].inv.arr[n - k + 1] =
                    SetPropertyCmd(cmdArr[k].object, cmdArr[k].name,
                                   ValueBefore(cmdArr, k, runs[1].props))
           /\ Len(runs) = 2 => props = runs[1].props
           /\ Len(runs) = 3 => props = runs[2].props

\* A composite that sets one property twice and another once was executed,
\* then undone, then re-applied, and it changed both properties.
C29_Witness ==
    /\ CompositeRan
    /\ Len(runs) = 3
    /\ Len(runs[1].cmd.arr) = 3
    /\ runs[1].cmd.arr[1].name = runs[1].cmd.arr[3].name
    /\ runs[1].cmd.arr[1].value # runs[1].cmd.arr[3].value
    /\ \A n \in Names : props["o1"][n] # runs[1].props["o1"][n]

\* C30: for every array (plain Array or list), every item and every integer
\* index, executing ETO_ArrayInsertCmd and then the command it returned
\* restores the contents of the array, and so does executing
\* ETO_ArrayRemoveCmd and then the command it returned.
C30_ArrayCmdRoundTrip ==
    (Len(runs) = 2 /\ runs[1].cmd.type \in {"insert", "remove"})
      => /\ array = runs[1].array
         /\ [x \in 1..Len(storage) |-> storage[x][1]] = runs[1].items

\* ------------------------------------------------------------ serialization
\* An assignment to the property changes its value.
Writable(p) == p.kind \in {"plain", "filtered"}

\* C31: for every Observable Object that is not simply serialized and whose
\* properties hold strings, numbers or booleans, the object constructed
\* from the result of toJSON has the same property names, the same values
\* and the same enumerable, writable and removable flags.
C31_SerializationRoundTrip ==
    (lastOp.op = "construct" /\ lastOp.value.data)
      => \A n \in DOMAIN props["o1"] :
            LET p == props["o1"][n]
                q == props["o2"][n]
            IN /\ (q.kind = "none") = (p.kind = "none")
               /\ q.value = p.value
               /\ q.enumerable = p.enumerable
               /\ q.configurable = p.configurable
               /\ Writable(q) = Writable(p)

\* The value with which an add function reports that it added nothing.
FailureValue(op) == IF op = "addPropertyWithPrivateSet" THEN Null ELSE "false"

\* The last call was one of the four add functions.
AddCalled ==
    lastOp.op \in {"addProperty", "addROProperty", "addPropertyWithPrivateSet",
                   "addPropertyWithSetFilter"}

\* C32: no sequence of calls of the four add functions and no construction
\* from a plain object yields an Observable Object with a property whose
\* name is the sentinel member of toJSON and of the constructor; every add
\* with that name, and every add of a name the object has, returns the
\* failure value and leaves the property as it is.
C32_SentinelNameIsReserved ==
    /\ \A o \in Objs : props[o][SentinelName].kind = "none"
    /\ (AddCalled /\ lastOp.name = SentinelName)
         => lastOp.result = FailureValue(lastOp.op)
    /\ (AddCalled /\ lastOp.name \in DOMAIN lastOp.pre[lastOp.target]
                  /\ lastOp.pre[lastOp.target][lastOp.name].kind # "none")
         => /\ lastOp.result = FailureValue(lastOp.op)
            /\ props = lastOp.pre

\* The Observable-Object items among the items a remove call took out of the
\* list, with the handle of the list's subscription on each.
RemovedObservables(f) == {f.removed[y] : y \in {z \in 1..Len(f.removed) : f.removed[z][2] # 0}}

\* C33: while an observer handles a 'remove' notification of a remove, clear
\* or splice that took several Observable-Object items out of the list, the
\* list is no longer subscribed to any of those items, and no change of one of
\* them made from inside such a callback has been forwarded to a list observer.
C33_RemovedItemsUnsubscribedBeforeNotifying ==
    \A x \in 1..Len(stack) :
       (stack[x].k = "remove" /\ Cardinality(RemovedObservables(stack[x])) >= 2)
          => /\ \A item \in RemovedObservables(stack[x]) :
                   item[2] \notin Elements(observers[item[1]])
             /\ \A y \in 1..Len(log) :
                   ~(/\ passes[log[y].pid].target = List
                     /\ log[y].det.listChangeType # "remove"
                     /\ \E item \in RemovedObservables(stack[x]) :
                           log[y].det.object = item[1])


\* C34: in every state between list operations and in every state in which
\* an observer is being invoked, the list has an index accessor for exactly
\* the indices 0 .. length-1, reading it gives the item that at gives, and at
\* gives undefined for every index outside that range.
C34_IndexAccessorsMatchContents ==
    /\ indexProps = 0..(Len(storage) - 1)
    /\ \A i \in indexProps : indexGetter(State, i) = at(State, i)
    /\ \A i \in (-2)..(MaxLen + 2) :
          i \notin 0..(Len(storage) - 1) <=> at(State, i) = Undefined

\* An observer is being invoked during a removal that left one of two items
\* in the list.
C34_Witness ==
    /\ stack # << >>
    /\ lastOp.op \in {"remove", "splice", "removeLast"}
    /\ lastOp.preIndexProps = {0, 1}
    /\ indexProps = {0}
    /\ Len(storage) = 1


\* C35: every notification delivered to a list observer has the list as
\* sender and as last entry of senders; a structural event (add, remove,
\* replace) has the list as object and senders [list]; a forwarded change of
\* an item's property has the item as object, the name of the property that
\* changed and senders [item, list]; an observer of the item itself receives
\* the change with senders [item].
C35_SendersChain ==
    \A y \in 1..Len(log) :
       LET e == log[y]
           p == passes[e.pid]
       IN /\ p.target = List =>
               /\ e.det.sender = List
               /\ e.det.senders # << >>
               /\ e.det.senders[Len(e.det.senders)] = List
               /\ e.det.listChangeType \in {"add", "remove", "replace"} =>
                     e.det.object = List /\ e.det.senders = <<List>>
               /\ e.det.listChangeType \notin {"add", "remove", "replace"} =>
                     /\ e.det.object \in Objs
                     /\ e.det.senders = <<e.det.object, List>>
                     /\ \E q \in 1..(e.pid - 1) :
                           /\ passes[q].target = e.det.object
                           /\ passes[q].det.name = e.det.name
                           /\ passes[q].det.oldValue = e.det.oldValue
          /\ p.target \in Objs =>
               /\ e.det.sender = p.target
               /\ e.det.object = p.target
               /\ e.det.senders = <<p.target>>
               /\ (lastOp.op = "assign" /\ e.pid = 1) =>
                     p.target = lastOp.target /\ e.det.name = lastOp.name

\* An assignment to property b of o1 has been delivered to an observer of o1
\* and, forwarded by the list, to the observer of the list.
C35_Witness ==
    /\ lastOp.op = "assign"
    /\ lastOp.name = "b"
    /\ \E y, z \in 1..Len(log) :
          /\ passes[log[y].pid].target = "o1"
          /\ handles[log[y].h].cb = "user"
          /\ passes[log[z].pid].target = List
          /\ log[z].det.object = "o1"
          /\ log[z].det.name = "b"


\* C36: every observer invoked in a notification pass receives the details
\* the pass started with, with the senders the pass started with and its own
\* userData, whatever the observers invoked before it in the pass (callbacks
\* of callers and forwarding callbacks of the list) wrote to the details they
\* received.
C36_DetailsArePerObserver ==
    \A y \in 1..Len(log) :
       LET e == log[y]
           p == passes[e.pid]
       IN /\ e.det.senders = p.det.senders
          /\ e.det.object = p.det.object
          /\ e.det.name = p.det.name
          /\ e.det.oldValue = p.det.oldValue
          /\ e.det.listItem = p.det.listItem
          /\ e.det.index = p.det.index
          /\ e.det.listChangeType = p.det.listChangeType
          /\ e.det.userData = e.h

\* In one pass of o1 the observer registered first, the forwarding callback
\* of the list and the observer registered last have been invoked, in that
\* order.
C36_Witness ==
    \E x, y, z \in 1..Len(log) :
       /\ x < y /\ y < z
       /\ log[x].pid = log[y].pid /\ log[y].pid = log[z].pid
       /\ passes[log[x].pid].target = "o1"
       /\ log[x].h = 1 /\ log[y].h = 2 /\ log[z].h = 3


\* C37: in no notification pass is an observer handle invoked more than
\* once, whatever observers the callbacks of the pass add or remove.
C37_NoHandleInvokedTwice ==
    \A p \in 1..Len(passes) :
       \A h \in 1..Len(handles) : Occurrences(Invoked(p), h) <= 1

\* A pass has ended during which callbacks added an observer and removed
\* one, and at least two callbacks ran in it.
C37_Witness ==
    \E p \in 1..Len(passes) :
       /\ passes[p].done
       /\ passes[p].added
       /\ passes[p].removed
       /\ Len(Invoked(p)) >= 2


\* The value that the change notified by pass p of an item gave the
\* property: the oldValue of the next change of that property, or the
\* property's value when no change followed.
ValueEstablished(p) ==
    LET later == {q \in (p + 1)..Len(passes) :
                     /\ passes[q].target = passes[p].target
                     /\ passes[q].det.name = passes[p].det.name}
    IN IF later = {}
       THEN props[passes[p].target][passes[p].det.name].value
       ELSE passes[CHOOSE q \in later : \A r \in later : q <= r].det.oldValue

\* C38: an observer of an Observable Object receives the notifications of
\* the changes of one property in the order in which the changes were made,
\* each with the value the previously notified change established as its
\* oldValue, also when a callback assigns the property.
C38_ChangesArriveInOrder ==
    \A x, y \in 1..Len(log) :
       (/\ x < y
        /\ log[x].h = log[y].h
        /\ handles[log[x].h].cb = "user"
        /\ passes[log[x].pid].target \in Objs
        /\ passes[log[x].pid].target = passes[log[y].pid].target
        /\ log[x].det.name = log[y].det.name
        /\ \A z \in (x + 1)..(y - 1) :
              ~(log[z].h = log[x].h /\ log[z].det.name = log[x].det.name))
          => /\ log[x].pid < log[y].pid
             /\ log[y].det.oldValue = ValueEstablished(log[x].pid)


\* The last call was op and the exec it called threw.
Threw(op) ==
    /\ Idle
    /\ lastOp.target = UndoRedoSystem
    /\ lastOp.op = op
    /\ executed # << >>
    /\ executed[1].type = "abstract"

\* What C39 says of the stacks and of the notifications when exec throws:
\* the exception reaches the caller, the entry is popped from its stack and
\* pushed onto neither, the other stack is unchanged and nothing is notified.
PoppedAndLost(op) ==
    LET pre == lastOp.preUndo
        from == IF op = "execUndo" THEN "m_undos" ELSE "m_redos"
        other == IF op = "execUndo" THEN "m_redos" ELSE "m_undos"
        now == [m_undos |-> m_undos, m_redos |-> m_redos]
        n == Len(pre[from])
    IN /\ n >= 1
       /\ executed = <<pre[from][n][2]>>
       /\ runs # << >>
       /\ runs[Len(runs)].cmd = pre[from][n][2]
       /\ runs[Len(runs)].inv = Thrown
       /\ now[from] = SubSeq(pre[from], 1, n - 1)
       /\ now[other] = pre[other]
       /\ Len(m_undos) + Len(m_redos) = Len(pre.m_undos) + Len(pre.m_redos) - 1
       /\ passes = << >>
       /\ log = << >>
       /\ props = lastOp.pre

\* C39 as claimed: when exec throws during execUndo (execRedo) the entry is
\* popped and lost, nothing is notified, and undoText (redoText) shows the
\* label of the popped entry.
C39_TextShowsPoppedLabel ==
    /\ Threw("execUndo") =>
          /\ PoppedAndLost("execUndo")
          /\ undoText = lastOp.preUndo.m_undos[Len(lastOp.preUndo.m_undos)][1]
    /\ Threw("execRedo") =>
          /\ PoppedAndLost("execRedo")
          /\ redoText = lastOp.preUndo.m_redos[Len(lastOp.preUndo.m_redos)][1]

\* C39 amended: when exec throws during execUndo (execRedo) the entry is
\* popped and lost, nothing is notified, and undoText and redoText are what
\* they were before the call; that is the label of the popped entry when
\* the text showed the top of its stack before the call.
C39_TextUnchanged ==
    /\ Threw("execUndo") =>
          /\ PoppedAndLost("execUndo")
          /\ undoText = lastOp.preUndo.undoText
          /\ redoText = lastOp.preUndo.redoText
          /\ lastOp.preUndo.undoText = TopText(lastOp.preUndo.m_undos, UndoLabel)
                => undoText = lastOp.preUndo.m_undos[Len(lastOp.preUndo.m_undos)][1]
    /\ Threw("execRedo") =>
          /\ PoppedAndLost("execRedo")
          /\ undoText = lastOp.preUndo.undoText
          /\ redoText = lastOp.preUndo.redoText
          /\ lastOp.preUndo.redoText = TopText(lastOp.preUndo.m_redos, RedoLabel)
                => redoText = lastOp.preUndo.m_redos[Len(lastOp.preUndo.m_redos)][1]

\* execRedo has thrown: the redo entry that an earlier execUndo pushed held
\* a command whose exec throws.
C39_Witness ==
    /\ Threw("execRedo")
    /\ lastOp.preUndo.m_redos # << >>
    /\ m_redos = << >>
    /\ redoText # RedoLabel


\* The last call was a query operation of the list and has returned.
QueryReturned ==
    /\ Idle
    /\ lastOp.target = List
    /\ lastOp.op \in {"at", "indexOf", "first", "last", "every", "filter",
                      "forEach", "toArray", "toJSON", "toString"}

\* C40: a query operation of the list (at, indexOf, first, last, every,
\* filter, forEach, toArray, toJSON, toString) whose callbacks change nothing
\* leaves the contents of the list, the index accessors, the observers of the
\* list and the observers of every item as they were and notifies nobody.
C40_QueriesChangeNothing ==
    QueryReturned =>
       /\ storage = lastOp.preStorage
       /\ indexProps = lastOp.preIndexProps
       /\ observers = lastOp.preObservers
       /\ props = lastOp.pre
       /\ passes = << >>
       /\ log = << >>


====
